---- MODULE Spec2Model ----
(***************************************************************************)
(* A model of the deet debugger (proj-1/deet): the command loop of         *)
(* Debugger::run, the Inferior it owns, and the traced OS process the      *)
(* Inferior drives through ptrace.  The traced process is a small byte     *)
(* coded machine (text, stack, rip/rsp/rbp) so that breakpoint patching,   *)
(* traps, faults and frame chains are computed, not assumed.               *)
(***************************************************************************)
EXTENDS Integers, Sequences, FiniteSets, TLC

VARIABLES
    inferior,      \* Debugger.inferior: 0 is None, otherwise the pid held by Some(Inferior)
    breakpoints,   \* Debugger.breakpoints: Vec<usize>
    procs,         \* the OS processes spawned so far, indexed by pid
    dbg,           \* the debugger process itself: "prompt", "exited" or "panicked"
    lastCmd,       \* the command the loop handled last
    out,           \* what that command printed
    ops,           \* the kernel calls that command issued, in order
    created,       \* history: the address of every Breakpoint command that resolved
    patch,         \* a byte patched on its own: the address, the memory before, the byte returned
    warmup,        \* week1 warm-up: the vector handed to dedup and the vector afterwards
    rdiff,         \* week2 rdiff: the sequences handed to lcs and the grid it returned
    farm,          \* week5 farm: the queue, its mutex, main and the worker threads
    pmap,          \* week6 parallel_map: its vectors, channels and threads
    linked_list    \* week3 linked_list: a LinkedList, its nodes and the last call on it

\* the state of the debugger session
session == <<inferior, breakpoints, procs, dbg, lastCmd, out, ops, created, patch>>

\* the state of the exercises beside the debugger
aside == <<warmup, rdiff, farm, pmap, linked_list>>

vars == <<inferior, breakpoints, procs, dbg, lastCmd, out, ops, created, patch, warmup, rdiff, farm, pmap, linked_list>>

\* no exercise beside the debugger has been started
NoDedup == [phase |-> "none", input |-> <<>>, v |-> <<>>]
NoLcs == [phase |-> "none", seq1 |-> <<>>, seq2 |-> <<>>, c |-> <<>>, panicked |-> FALSE]
NoFarm == [main |-> "none"]
NoMap == [main |-> "none"]
NoList == [op |-> "none"]
AsideIdle ==
    warmup = NoDedup /\ rdiff = NoLcs /\ farm = NoFarm /\ pmap = NoMap /\ linked_list = NoList

----------------------------------------------------------------------------
(* Bounds of the model.                                                    *)

\* how many processes a session may spawn
MaxSpawns == 2
\* how many Breakpoint commands may resolve in a session
MaxBreaks == 2
\* instructions a resumed process may execute before it counts as hung
Fuel == 40
\* frames a backtrace may walk before it counts as walking for ever
MaxFrames == 8

----------------------------------------------------------------------------
(* Machine words and the traced process's address space.                   *)

WordSize == 8
TrapOpcode == 204

Byte == 0..255
WordIdx == 1..WordSize

\* the word whose i-th byte (from the least significant) is B(i)
MkWord(B(_)) == <<B(1), B(2), B(3), B(4), B(5), B(6), B(7), B(8)>>

\* every address at or above Huge is unmapped; values that large are kept as Huge
Huge == 256 * 256 * 256

TextBase == 2 * WordSize
TextLen == 3 * WordSize
StackBase == 6 * WordSize
StackTop == 12 * WordSize

TextAddrs == TextBase..(TextBase + TextLen - 1)
StackAddrs == StackBase..(StackTop - 1)
Mapped == TextAddrs \cup StackAddrs

\* the target's instruction set: one opcode byte, CALL and MOV carry one more byte
Op == [push |-> 85, mov |-> 72, mov2 |-> 137, call |-> 232, pop |-> 93,
       ret |-> 195, nop |-> 144, exit |-> 15]

\* the layout of the target program
Sym == [start |-> TextBase, main |-> TextBase + 3, f |-> TextBase + 10,
        g |-> TextBase + 17]

\* _start: call main; exit
\* main:   push rbp; mov rbp,rsp; call f; pop rbp; ret
\* f:      push rbp; mov rbp,rsp; call g; pop rbp; ret
\* g:      push rbp; mov rbp,rsp; nop;    pop rbp; ret
TargetText ==
    <<Op.call, Sym.main, Op.exit,
      Op.push, Op.mov, Op.mov2, Op.call, Sym.f, Op.pop, Op.ret,
      Op.push, Op.mov, Op.mov2, Op.call, Sym.g, Op.pop, Op.ret,
      Op.push, Op.mov, Op.mov2, Op.nop, Op.pop, Op.ret,
      0>>

\* memory of a freshly exec'ed process
FreshMem ==
    [a \in Mapped |-> IF a \in TextAddrs THEN TargetText[a - TextBase + 1] ELSE 0]

\* value of a word as an address (little endian)
WordVal(w) ==
    IF \A i \in 4..WordSize : w[i] = 0
    THEN w[1] + 256 * w[2] + 256 * 256 * w[3]
    ELSE Huge

ToWord(n) ==
    <<n % 256, (n \div 256) % 256, (n \div (256 * 256)) % 256, (n \div Huge) % 256,
      0, 0, 0, 0>>

\* PTRACE_PEEKDATA: the word at addr, or an error if any byte of it is unmapped
PeekOk(addr) == \A i \in 0..(WordSize - 1) : (addr + i) \in Mapped
PeekWord(mem, addr) == MkWord(LAMBDA i : mem[addr + i - 1])

\* PTRACE_POKEDATA
PokeWord(mem, addr, w) ==
    [mem EXCEPT ![addr] = w[1], ![addr + 1] = w[2], ![addr + 2] = w[3], ![addr + 3] = w[4],
                ![addr + 4] = w[5], ![addr + 5] = w[6], ![addr + 6] = w[7], ![addr + 7] = w[8]]

----------------------------------------------------------------------------
(* 64-bit word arithmetic used by write_byte.  Every shift is a multiple   *)
(* of 8 bits, so a word is kept as its 8 bytes and the operators act       *)
(* bytewise, bit by bit inside each byte.                                  *)

\* bit i of a byte
Bit(a, i) == (a \div (2 ^ i)) % 2

\* a & b and a | b on bytes
ByteAnd(a, b) ==
    Bit(a, 0) * Bit(b, 0) + 2 * Bit(a, 1) * Bit(b, 1) + 4 * Bit(a, 2) * Bit(b, 2)
    + 8 * Bit(a, 3) * Bit(b, 3) + 16 * Bit(a, 4) * Bit(b, 4) + 32 * Bit(a, 5) * Bit(b, 5)
    + 64 * Bit(a, 6) * Bit(b, 6) + 128 * Bit(a, 7) * Bit(b, 7)

ByteOr(a, b) == a + b - ByteAnd(a, b)

WordAnd(x, y) == MkWord(LAMBDA i : ByteAnd(x[i], y[i]))
WordOr(x, y) == MkWord(LAMBDA i : ByteOr(x[i], y[i]))
WordNot(x) == MkWord(LAMBDA i : 255 - x[i])
\* x >> (8 * k)
WordShr(x, k) == MkWord(LAMBDA i : IF i + k <= WordSize THEN x[i + k] ELSE 0)
\* x << (8 * k)
WordShl(x, k) == MkWord(LAMBDA i : IF i - k >= 1 THEN x[i - k] ELSE 0)
\* a byte widened to u64
U64(b) == <<b, 0, 0, 0, 0, 0, 0, 0>>

align_addr_to_word(addr) == addr - (addr % WordSize)

----------------------------------------------------------------------------
(* The traced process: a process record and its machine.                   *)

\* a process that has been reaped (or never existed): nothing of it is left
Gone == [st |-> "reaped", mem |-> <<>>, rip |-> 0, rsp |-> 0, rbp |-> 0]

\* the child right after exec, stopped by the SIGTRAP of PTRACE_TRACEME
FreshProc ==
    [st |-> "stopped", mem |-> FreshMem, rip |-> Sym.start, rsp |-> StackTop, rbp |-> 0]

Alive(p) == p.st = "stopped"

StackOk(addr) == \A i \in 0..(WordSize - 1) : (addr + i) \in StackAddrs

Went(p) == [ev |-> "ok", sig |-> "", p |-> p]
Stop(p, s) == [ev |-> "stop", sig |-> s, p |-> p]

\* one instruction of the process
Step(p) ==
    IF p.rip \notin TextAddrs THEN Stop(p, "SIGSEGV")
    ELSE LET op == p.mem[p.rip] IN
      CASE op = TrapOpcode ->
             Stop([p EXCEPT !.rip = p.rip + 1], "SIGTRAP")
        [] op = Op.push ->
             IF StackOk(p.rsp - WordSize)
             THEN Went([p EXCEPT !.mem = PokeWord(p.mem, p.rsp - WordSize, ToWord(p.rbp)),
                                 !.rsp = p.rsp - WordSize,
                                 !.rip = p.rip + 1])
             ELSE Stop(p, "SIGSEGV")
        [] op = Op.mov ->
             IF (p.rip + 1) \in TextAddrs /\ p.mem[p.rip + 1] = Op.mov2
             THEN Went([p EXCEPT !.rbp = p.rsp, !.rip = p.rip + 2])
             ELSE Stop(p, "SIGILL")
        [] op = Op.call ->
             IF (p.rip + 1) \notin TextAddrs THEN Stop(p, "SIGSEGV")
             ELSE IF StackOk(p.rsp - WordSize)
             THEN Went([p EXCEPT !.mem = PokeWord(p.mem, p.rsp - WordSize, ToWord(p.rip + 2)),
                                 !.rsp = p.rsp - WordSize,
                                 !.rip = p.mem[p.rip + 1]])
             ELSE Stop(p, "SIGSEGV")
        [] op = Op.pop ->
             IF PeekOk(p.rsp)
             THEN Went([p EXCEPT !.rbp = WordVal(PeekWord(p.mem, p.rsp)),
                                 !.rsp = p.rsp + WordSize,
                                 !.rip = p.rip + 1])
             ELSE Stop(p, "SIGSEGV")
        [] op = Op.ret ->
             IF PeekOk(p.rsp)
             THEN Went([p EXCEPT !.rip = WordVal(PeekWord(p.mem, p.rsp)),
                                 !.rsp = p.rsp + WordSize])
             ELSE Stop(p, "SIGSEGV")
        [] op = Op.nop ->
             Went([p EXCEPT !.rip = p.rip + 1])
        [] op = Op.exit ->
             [ev |-> "exit", sig |-> "", p |-> Gone]
        [] OTHER ->
             Stop(p, "SIGILL")

\* the process runs until it stops or exits
RECURSIVE RunToStop(_, _)
RunToStop(p, fuel) ==
    IF fuel = 0 THEN [ev |-> "hang", sig |-> "", p |-> p]
    ELSE LET r == Step(p) IN
         IF r.ev = "ok" THEN RunToStop(r.p, fuel - 1) ELSE r

----------------------------------------------------------------------------
(* Kernel calls are logged as they are issued; a wait also logs the Status *)
(* it returns (for Stopped, with the instruction pointer it read).         *)

K(op, pid, addr) == [op |-> op, pid |-> pid, addr |-> addr]

\* how a stop by signal sig is logged
StoppedBy(sig) == "Stopped(" \o sig \o ")"

\* what the operator is told
Say(tag, name, n, addr) == [tag |-> tag, name |-> name, n |-> n, addr |-> addr]

----------------------------------------------------------------------------
(* Inferior (inferior.rs).  Each operation takes the process record and    *)
(* returns the outcome, the record afterwards and the kernel calls made.   *)

\* write_byte without the mask: the new byte is or-ed onto the old one
write_byte_unmasked(pid, p, addr, val) ==
    LET aligned_addr == align_addr_to_word(addr)
        byte_offset == addr - aligned_addr
    IN  IF ~(Alive(p) /\ PeekOk(aligned_addr))
        THEN [ok |-> FALSE, orig |-> 0, p |-> p,
              ops |-> <<K("peek", pid, aligned_addr)>>]
        ELSE LET word == PeekWord(p.mem, aligned_addr)
                 orig_byte == WordAnd(WordShr(word, byte_offset), U64(255))
                 updated_word == WordOr(word, WordShl(U64(val), byte_offset))
             IN  [ok |-> TRUE, orig |-> orig_byte[1],
                  p |-> [p EXCEPT !.mem = PokeWord(p.mem, aligned_addr, updated_word)],
                  ops |-> <<K("peek", pid, aligned_addr), K("poke", pid, aligned_addr)>>]

\* write_byte on the word that starts at addr itself
write_byte_unaligned(pid, p, addr, val) ==
    IF ~(Alive(p) /\ PeekOk(addr))
    THEN [ok |-> FALSE, orig |-> 0, p |-> p, ops |-> <<K("peek", pid, addr)>>]
    ELSE LET word == PeekWord(p.mem, addr)
             orig_byte == WordAnd(word, U64(255))
             masked_word == WordAnd(word, WordNot(U64(255)))
             updated_word == WordOr(masked_word, U64(val))
         IN  [ok |-> TRUE, orig |-> orig_byte[1],
              p |-> [p EXCEPT !.mem = PokeWord(p.mem, addr, updated_word)],
              ops |-> <<K("peek", pid, addr), K("poke", pid, addr)>>]

\* Inferior::write_byte
write_byte(pid, p, addr, val) ==
    LET aligned_addr == align_addr_to_word(addr)
        byte_offset == addr - aligned_addr
    IN  IF ~(Alive(p) /\ PeekOk(aligned_addr))
        THEN [ok |-> FALSE, orig |-> 0, p |-> p,
              ops |-> <<K("peek", pid, aligned_addr)>>]
        ELSE LET word == PeekWord(p.mem, aligned_addr)
                 orig_byte == WordAnd(WordShr(word, byte_offset), U64(255))
                 masked_word == WordAnd(word, WordNot(WordShl(U64(255), byte_offset)))
                 updated_word == WordOr(masked_word, WordShl(U64(val), byte_offset))
             IN  [ok |-> TRUE, orig |-> orig_byte[1],
                  p |-> [p EXCEPT !.mem = PokeWord(p.mem, aligned_addr, updated_word)],
                  ops |-> <<K("peek", pid, aligned_addr), K("poke", pid, aligned_addr)>>]

\* Inferior::install_break_points
install_break_points(pid, p, addr) == write_byte(pid, p, addr, TrapOpcode)

\* wait reporting the address of the trap instead of the register it read
wait_rewound(pid, r) ==
    CASE r.ev = "stop" ->
           [res |-> "Stopped", sig |-> r.sig, rip |-> r.p.rip - 1, p |-> r.p,
            ops |-> <<K("waitpid", pid, 0), K("getregs", pid, 0),
                      K(StoppedBy(r.sig), pid, r.p.rip - 1)>>]
      [] r.ev = "exit" ->
           [res |-> "Exited", sig |-> "", rip |-> 0, p |-> Gone,
            ops |-> <<K("waitpid", pid, 0), K("Exited", pid, 0)>>]
      [] r.ev = "kill" ->
           [res |-> "Signaled", sig |-> "SIGKILL", rip |-> 0, p |-> Gone,
            ops |-> <<K("waitpid", pid, 0), K("Signaled", pid, 0)>>]
      [] OTHER ->
           [res |-> "Hang", sig |-> "", rip |-> 0, p |-> r.p,
            ops |-> <<K("waitpid", pid, 0)>>]

\* Inferior::wait, after the process was resumed and ran as r says
wait(pid, r) ==
    CASE r.ev = "stop" ->
           [res |-> "Stopped", sig |-> r.sig, rip |-> r.p.rip, p |-> r.p,
            ops |-> <<K("waitpid", pid, 0), K("getregs", pid, 0),
                      K(StoppedBy(r.sig), pid, r.p.rip)>>]
      [] r.ev = "exit" ->
           [res |-> "Exited", sig |-> "", rip |-> 0, p |-> Gone,
            ops |-> <<K("waitpid", pid, 0), K("Exited", pid, 0)>>]
      [] r.ev = "kill" ->
           [res |-> "Signaled", sig |-> "SIGKILL", rip |-> 0, p |-> Gone,
            ops |-> <<K("waitpid", pid, 0), K("Signaled", pid, 0)>>]
      [] OTHER ->
           [res |-> "Hang", sig |-> "", rip |-> 0, p |-> r.p,
            ops |-> <<K("waitpid", pid, 0)>>]

\* Inferior::cont; killed: the process is killed from outside while it runs
cont(pid, p, killed) ==
    IF ~Alive(p)
    THEN [res |-> "Err", sig |-> "", rip |-> 0, p |-> p, ops |-> <<K("cont", pid, 0)>>]
    ELSE LET r == IF killed THEN [ev |-> "kill", sig |-> "SIGKILL", p |-> Gone]
                  ELSE RunToStop(p, Fuel)
             w == wait(pid, r)
         IN  [w EXCEPT !.ops = <<K("cont", pid, 0)>> \o w.ops]

\* Inferior::kill
kill(pid, p) ==
    IF Alive(p)
    THEN [ok |-> TRUE, p |-> Gone, ops |-> <<K("kill", pid, 0), K("reap", pid, 0)>>]
    ELSE [ok |-> FALSE, p |-> p, ops |-> <<K("kill", pid, 0)>>]

----------------------------------------------------------------------------
(* Strings are sequences of one-character strings, so that parsing is      *)
(* computed character by character.                                        *)

None == [some |-> FALSE, v |-> 0]
Some(x) == [some |-> TRUE, v |-> x]

LowerDigits == <<"0", "1", "2", "3", "4", "5", "6", "7", "8", "9",
                 "a", "b", "c", "d", "e", "f">>
UpperDigits == <<"0", "1", "2", "3", "4", "5", "6", "7", "8", "9",
                 "A", "B", "C", "D", "E", "F">>

\* char::to_digit: the digit's value, or -1 when c is no digit of the radix
to_digit(c, radix) ==
    IF \E i \in 1..radix : LowerDigits[i] = c \/ UpperDigits[i] = c
    THEN (CHOOSE i \in 1..radix : LowerDigits[i] = c \/ UpperDigits[i] = c) - 1
    ELSE -1

RECURSIVE ParseDigits(_, _, _)
ParseDigits(s, radix, acc) ==
    IF s = <<>> THEN Some(acc)
    ELSE LET d == to_digit(Head(s), radix) IN
         IF d < 0 THEN None
         ELSE LET next == acc * radix + d IN
              ParseDigits(Tail(s), radix, IF next > Huge THEN Huge ELSE next)

\* usize::from_str_radix (str::parse::<usize> is radix 10)
from_str_radix(s, radix) ==
    IF s = <<>> THEN None
    ELSE IF Len(s) = 1 /\ s[1] \in {"+", "-"} THEN None
    ELSE ParseDigits(IF s[1] = "+" THEN Tail(s) ELSE s, radix, 0)

\* str::trim_start_matches
RECURSIVE trim_start_matches(_, _)
trim_start_matches(s, pat) ==
    IF Len(s) >= Len(pat) /\ SubSeq(s, 1, Len(pat)) = pat
    THEN trim_start_matches(SubSeq(s, Len(pat) + 1, Len(s)), pat)
    ELSE s

starts_with(s, c) == s # <<>> /\ s[1] = c

----------------------------------------------------------------------------
(* DwarfData: the symbol resolver loaded from the target.                  *)

NameMain == <<"m", "a", "i", "n">>
NameF == <<"f">>
NameG == <<"g">>

\* functions of the target with their address ranges; _start has no debug info
Functions ==
    <<[name |-> NameMain, lo |-> Sym.main, hi |-> Sym.f - 1],
      [name |-> NameF, lo |-> Sym.f, hi |-> Sym.g - 1],
      [name |-> NameG, lo |-> Sym.g, hi |-> Sym.g + 5]>>

\* the line table: each source line with the addresses of its instructions
Lines ==
    <<[number |-> 10, lo |-> Sym.main, hi |-> Sym.main + 2],
      [number |-> 11, lo |-> Sym.main + 3, hi |-> Sym.main + 4],
      [number |-> 12, lo |-> Sym.main + 5, hi |-> Sym.main + 6],
      [number |-> 20, lo |-> Sym.f, hi |-> Sym.f + 2],
      [number |-> 21, lo |-> Sym.f + 3, hi |-> Sym.f + 4],
      [number |-> 22, lo |-> Sym.f + 5, hi |-> Sym.f + 6],
      [number |-> 30, lo |-> Sym.g, hi |-> Sym.g + 2],
      [number |-> 31, lo |-> Sym.g + 3, hi |-> Sym.g + 3],
      [number |-> 32, lo |-> Sym.g + 4, hi |-> Sym.g + 5]>>

get_line_from_addr(addr) ==
    IF \E i \in DOMAIN Lines : addr \in Lines[i].lo..Lines[i].hi
    THEN Some(Lines[CHOOSE i \in DOMAIN Lines : addr \in Lines[i].lo..Lines[i].hi].number)
    ELSE None

get_function_from_addr(addr) ==
    IF \E i \in DOMAIN Functions : addr \in Functions[i].lo..Functions[i].hi
    THEN Some(Functions[CHOOSE i \in DOMAIN Functions :
                            addr \in Functions[i].lo..Functions[i].hi].name)
    ELSE None

get_addr_for_line(line) ==
    IF \E i \in DOMAIN Lines : Lines[i].number = line
    THEN Some(Lines[CHOOSE i \in DOMAIN Lines : Lines[i].number = line].lo)
    ELSE None

get_addr_for_function(name) ==
    IF \E i \in DOMAIN Functions : Functions[i].name = name
    THEN Some(Functions[CHOOSE i \in DOMAIN Functions : Functions[i].name = name].lo)
    ELSE None

----------------------------------------------------------------------------
(* Inferior::new and the frame printing of inferior.rs.                    *)

\* the loop of Inferior::new over the breakpoints; each result is dropped
RECURSIVE InstallAll(_, _, _)
InstallAll(pid, p, bps) ==
    IF bps = <<>> THEN [p |-> p, ops |-> <<>>]
    ELSE LET w == install_break_points(pid, p, Head(bps))
             rest == InstallAll(pid, w.p, Tail(bps))
         IN  [p |-> rest.p, ops |-> w.ops \o rest.ops]

\* what spawning and the first waitpid can give
Handshakes == {"spawn_err", "sigtrap", "other_stop", "exited", "signaled", "wait_err"}

\* Inferior::new that takes any stop of the child for the stop after exec
Inferior_new_any_stop(ps, bps, h) ==
    LET pid == Len(ps) + 1 IN
    CASE h = "spawn_err" ->
           [some |-> FALSE, pid |-> 0, procs |-> ps,
            ops |-> <<K("spawn", 0, 0)>>,
            out |-> <<Say("FailedToSpawn", <<>>, 0, 0)>>]
      [] h \in {"sigtrap", "other_stop"} ->
           LET i == InstallAll(pid, FreshProc, bps) IN
           [some |-> TRUE, pid |-> pid, procs |-> Append(ps, i.p),
            ops |-> <<K("spawn", pid, 0), K("waitpid", pid, 0),
                      K(IF h = "sigtrap" THEN "Stopped(SIGTRAP)" ELSE "Stopped(other)", pid, 0)>>
                    \o i.ops,
            out |-> <<>>]
      [] h \in {"exited", "signaled"} ->
           [some |-> FALSE, pid |-> 0, procs |-> Append(ps, Gone),
            ops |-> <<K("spawn", pid, 0), K("waitpid", pid, 0),
                      K(IF h = "exited" THEN "Exited" ELSE "Signaled", pid, 0)>>,
            out |-> <<Say("UnexpectedWaitStatus", <<>>, pid, 0)>>]
      [] OTHER ->
           [some |-> FALSE, pid |-> 0, procs |-> Append(ps, FreshProc),
            ops |-> <<K("spawn", pid, 0), K("waitpid", pid, 0), K("Err", pid, 0)>>,
            out |-> <<Say("WaitpidFailed", <<>>, pid, 0)>>]

\* Inferior::new: ps is the process table, h the outcome of spawn and waitpid;
\* the WaitStatus the first waitpid returned is logged after it
Inferior_new(ps, bps, h) ==
    LET pid == Len(ps) + 1 IN
    CASE h = "spawn_err" ->
           [some |-> FALSE, pid |-> 0, procs |-> ps,
            ops |-> <<K("spawn", 0, 0)>>,
            out |-> <<Say("FailedToSpawn", <<>>, 0, 0)>>]
      [] h = "sigtrap" ->
           LET i == InstallAll(pid, FreshProc, bps) IN
           [some |-> TRUE, pid |-> pid, procs |-> Append(ps, i.p),
            ops |-> <<K("spawn", pid, 0), K("waitpid", pid, 0), K("Stopped(SIGTRAP)", pid, 0)>>
                    \o i.ops,
            out |-> <<>>]
      [] h \in {"exited", "signaled"} ->
           \* the child is dead and the waitpid reaped it
           [some |-> FALSE, pid |-> 0, procs |-> Append(ps, Gone),
            ops |-> <<K("spawn", pid, 0), K("waitpid", pid, 0),
                      K(IF h = "exited" THEN "Exited" ELSE "Signaled", pid, 0)>>,
            out |-> <<Say("UnexpectedWaitStatus", <<>>, pid, 0)>>]
      [] h = "other_stop" ->
           \* the child is stopped under trace; its Child handle is dropped
           [some |-> FALSE, pid |-> 0, procs |-> Append(ps, FreshProc),
            ops |-> <<K("spawn", pid, 0), K("waitpid", pid, 0), K("Stopped(other)", pid, 0)>>,
            out |-> <<Say("UnexpectedWaitStatus", <<>>, pid, 0)>>]
      [] OTHER ->
           \* waitpid failed; the child lives on and its Child handle is dropped
           [some |-> FALSE, pid |-> 0, procs |-> Append(ps, FreshProc),
            ops |-> <<K("spawn", pid, 0), K("waitpid", pid, 0), K("Err", pid, 0)>>,
            out |-> <<Say("WaitpidFailed", <<>>, pid, 0)>>]

\* Inferior::print_current_frame: what it prints and what it returns
print_current_frame(instruction_ptr) ==
    LET line == get_line_from_addr(instruction_ptr)
        func == get_function_from_addr(instruction_ptr)
    IN  IF line.some /\ func.some
        THEN [out |-> <<Say("Frame", func.v, line.v, instruction_ptr)>>,
              ret |-> (func.v = NameMain)]
        ELSE [out |-> <<>>, ret |-> FALSE]

\* the loop of Inferior::print_backtrace
RECURSIVE Unwind(_, _, _, _, _)
Unwind(pid, p, instruction_ptr, base_ptr, fuel) ==
    LET fr == print_current_frame(instruction_ptr) IN
    IF fr.ret THEN [res |-> "Ok", out |-> fr.out, ops |-> <<>>]
    ELSE IF fuel = 0 THEN [res |-> "Hang", out |-> fr.out, ops |-> <<>>]
    ELSE IF ~PeekOk(base_ptr + 8)
    THEN [res |-> "Err", out |-> fr.out, ops |-> <<K("peek", pid, base_ptr + 8)>>]
    ELSE IF ~PeekOk(base_ptr)
    THEN [res |-> "Err", out |-> fr.out,
          ops |-> <<K("peek", pid, base_ptr + 8), K("peek", pid, base_ptr)>>]
    ELSE LET rest == Unwind(pid, p, WordVal(PeekWord(p.mem, base_ptr + 8)),
                            WordVal(PeekWord(p.mem, base_ptr)), fuel - 1)
         IN  [res |-> rest.res, out |-> fr.out \o rest.out,
              ops |-> <<K("peek", pid, base_ptr + 8), K("peek", pid, base_ptr)>> \o rest.ops]

\* Inferior::print_backtrace
print_backtrace(pid, p) ==
    IF ~Alive(p)
    THEN [res |-> "Err", out |-> <<>>, ops |-> <<K("getregs", pid, 0)>>]
    ELSE LET u == Unwind(pid, p, p.rip, p.rbp, MaxFrames) IN
         [u EXCEPT !.ops = <<K("getregs", pid, 0), K("getregs", pid, 0)>> \o u.ops]

----------------------------------------------------------------------------
(* Line stepping.  Inferior::next_line is called by the Next command but   *)
(* its body is not part of the sources; it follows the design document.    *)

\* PTRACE_SINGLESTEP and wait
step(pid, p, killed) ==
    IF ~Alive(p)
    THEN [res |-> "Err", sig |-> "", rip |-> 0, p |-> p, ops |-> <<K("step", pid, 0)>>]
    ELSE LET s == Step(p)
             r == IF killed THEN [ev |-> "kill", sig |-> "SIGKILL", p |-> Gone]
                  ELSE IF s.ev = "ok" THEN Stop(s.p, "SIGTRAP")
                  ELSE s
             w == wait(pid, r)
         IN  [w EXCEPT !.ops = <<K("step", pid, 0)>> \o w.ops]

RECURSIVE NextLoop(_, _, _, _, _)
NextLoop(pid, p, start_line, killed, fuel) ==
    LET s == step(pid, p, killed) IN
    IF s.res # "Stopped" \/ s.sig # "SIGTRAP" THEN s
    ELSE IF p.mem[p.rip] = TrapOpcode THEN s
    ELSE IF get_line_from_addr(s.rip) # start_line THEN s
    ELSE IF fuel = 0 THEN [s EXCEPT !.res = "Hang"]
    ELSE LET rest == NextLoop(pid, s.p, start_line, FALSE, fuel - 1) IN
         [rest EXCEPT !.ops = s.ops \o rest.ops]

next_line(pid, p, killed) ==
    IF ~Alive(p)
    THEN [res |-> "Err", sig |-> "", rip |-> 0, p |-> p, ops |-> <<K("getregs", pid, 0)>>]
    ELSE LET r == NextLoop(pid, p, get_line_from_addr(p.rip), killed, Fuel) IN
         [r EXCEPT !.ops = <<K("getregs", pid, 0)>> \o r.ops]

----------------------------------------------------------------------------
(* Debugger (debugger.rs): the state after Debugger::new and one action    *)
(* per DebuggerCommand handled by Debugger::run.                           *)

Cmd(c, arg) == [cmd |-> c, arg |-> arg]

\* DebuggerCommand::from_tokens with a bare break taken as a break at nothing
from_tokens_bare_break(tokens) ==
    IF tokens = <<>> THEN [cmd |-> None, out |-> <<>>]
    ELSE CASE tokens[1] \in {"q", "quit"} -> [cmd |-> Some(Cmd("Quit", <<>>)), out |-> <<>>]
           [] tokens[1] \in {"r", "run"} -> [cmd |-> Some(Cmd("Run", Tail(tokens))), out |-> <<>>]
           [] tokens[1] \in {"c", "cont", "continue"} ->
                [cmd |-> Some(Cmd("Continue", <<>>)), out |-> <<>>]
           [] tokens[1] \in {"bt", "backtrace"} ->
                [cmd |-> Some(Cmd("BackTrace", <<>>)), out |-> <<>>]
           [] tokens[1] \in {"n", "next"} -> [cmd |-> Some(Cmd("Next", <<>>)), out |-> <<>>]
           [] tokens[1] \in {"break", "b"} ->
                [cmd |-> Some(Cmd("BreakPoint", IF Len(tokens) >= 2 THEN tokens[2] ELSE <<>>)),
                 out |-> <<>>]
           [] OTHER -> [cmd |-> None, out |-> <<>>]

\* DebuggerCommand::from_tokens: the command, if any, and what it prints
from_tokens(tokens) ==
    IF tokens = <<>> THEN [cmd |-> None, out |-> <<>>]
    ELSE CASE tokens[1] \in {"q", "quit"} -> [cmd |-> Some(Cmd("Quit", <<>>)), out |-> <<>>]
           [] tokens[1] \in {"r", "run"} -> [cmd |-> Some(Cmd("Run", Tail(tokens))), out |-> <<>>]
           [] tokens[1] \in {"c", "cont", "continue"} ->
                [cmd |-> Some(Cmd("Continue", <<>>)), out |-> <<>>]
           [] tokens[1] \in {"bt", "backtrace"} ->
                [cmd |-> Some(Cmd("BackTrace", <<>>)), out |-> <<>>]
           [] tokens[1] \in {"n", "next"} -> [cmd |-> Some(Cmd("Next", <<>>)), out |-> <<>>]
           [] tokens[1] \in {"break", "b"} ->
                IF Len(tokens) >= 2
                THEN [cmd |-> Some(Cmd("BreakPoint", tokens[2])), out |-> <<>>]
                ELSE [cmd |-> None, out |-> <<Say("NoBreakpointTarget", <<>>, 0, 0)>>]
           [] OTHER -> [cmd |-> None, out |-> <<>>]

\* the breakpoint targets an operator may type
Targets ==
    {<<"*", "0", "x", "2", "4">>,
     <<"*", "2", "4">>,
     <<"*", "z">>,
     <<"*">>,
     <<"3", "1">>,
     <<"9">>,
     NameMain,
     NameG,
     <<"h">>}

\* bp_addr_opt with a raw address that fails to parse defaulting to 0
bp_addr_opt_defaulting(target) ==
    IF starts_with(target, "*")
    THEN [addr |-> Some(0), out |-> <<>>]
    ELSE IF from_str_radix(target, 10).some
    THEN [addr |-> get_addr_for_line(from_str_radix(target, 10).v), out |-> <<>>]
    ELSE [addr |-> get_addr_for_function(target), out |-> <<>>]

\* bp_addr_opt falling through to the function lookup when the strategy the
\* target's form selects finds nothing
bp_addr_opt_falling_through(target) ==
    IF starts_with(target, "*")
           /\ from_str_radix(trim_start_matches(trim_start_matches(target, <<"*">>),
                                                <<"0", "x">>), 16).some
    THEN [addr |-> from_str_radix(trim_start_matches(trim_start_matches(target, <<"*">>),
                                                     <<"0", "x">>), 16),
          out |-> <<>>]
    ELSE IF from_str_radix(target, 10).some /\ get_addr_for_line(from_str_radix(target, 10).v).some
    THEN [addr |-> get_addr_for_line(from_str_radix(target, 10).v), out |-> <<>>]
    ELSE LET r == get_addr_for_function(target)
         IN  [addr |-> r,
              out |-> IF r.some THEN <<>> ELSE <<Say("NoFunctionNamed", target, 0, 0)>>]

\* the address a breakpoint target resolves to, and what is printed on failure
bp_addr_opt(target) ==
    IF starts_with(target, "*")
    THEN LET addr_str == trim_start_matches(target, <<"*">>)
             r == from_str_radix(trim_start_matches(addr_str, <<"0", "x">>), 16)
         IN  [addr |-> r,
              out |-> IF r.some THEN <<>> ELSE <<Say("InvalidRawAddress", addr_str, 0, 0)>>]
    ELSE IF from_str_radix(target, 10).some
    THEN LET line == from_str_radix(target, 10).v
             r == get_addr_for_line(line)
         IN  [addr |-> r,
              out |-> IF r.some THEN <<>> ELSE <<Say("NoSourceForLine", <<>>, line, 0)>>]
    ELSE LET r == get_addr_for_function(target)
         IN  [addr |-> r,
              out |-> IF r.some THEN <<>> ELSE <<Say("NoFunctionNamed", target, 0, 0)>>]

\* how the debugger fares after an operation whose Result it unwraps with expect
AfterExpect(res) ==
    IF res = "Err" THEN "panicked"
    ELSE IF res = "Hang" THEN "blocked"
    ELSE "prompt"

\* the lines an operator may type, split at white space: the command words,
\* a break with each target, and lines that are no command
InputLines ==
    {<<w>> : w \in {"q", "quit", "r", "run", "c", "cont", "continue", "bt", "backtrace",
                    "n", "next", "b", "break", "x"}}
    \cup {<<"b", t>> : t \in Targets}

\* no byte has been patched on its own
NoPatch == [phase |-> "none", addr |-> 0, before |-> <<>>, orig |-> 0]

\* the original byte the session holds for the breakpoint at addr: none.
\* Debugger keeps addresses only (breakpoints: Vec<usize>), Inferior keeps
\* only its Child, and the byte install_break_points returns is dropped by
\* both of its callers.
original_byte(addr) == None

\* Debugger::new
Init ==
    /\ inferior = 0
    /\ breakpoints = <<>>
    /\ procs = <<>>
    /\ dbg = "prompt"
    /\ lastCmd = Cmd("none", <<>>)
    /\ out = <<>>
    /\ ops = <<>>
    /\ created = <<>>
    /\ patch = NoPatch
    /\ AsideIdle

\* the kill of a previous inferior with its result dropped
KillExisting_quiet ==
    IF inferior = 0 THEN [procs |-> procs, out |-> <<>>, ops |-> <<>>]
    ELSE LET k == kill(inferior, procs[inferior]) IN
         [procs |-> [procs EXCEPT ![inferior] = k.p],
          out |-> <<Say("KillingRunningInferior", <<>>, inferior, 0)>>,
          ops |-> k.ops]

\* the kill of a previous inferior that opens Run and Quit
KillExisting ==
    IF inferior = 0 THEN [procs |-> procs, out |-> <<>>, ops |-> <<>>]
    ELSE LET k == kill(inferior, procs[inferior]) IN
         [procs |-> [procs EXCEPT ![inferior] = k.p],
          out |-> <<Say("KillingRunningInferior", <<>>, inferior, 0)>>
                  \o (IF k.ok THEN <<>> ELSE <<Say("FailedToKill", <<>>, inferior, 0)>>),
          ops |-> k.ops]

\* DebuggerCommand::Run
Run ==
    /\ dbg = "prompt"
    /\ \E h \in Handshakes, killed \in BOOLEAN :
         /\ (h # "spawn_err") => Len(procs) < MaxSpawns
         /\ (h # "sigtrap") => ~killed
         /\ \E k \in {KillExisting} :
            \E n \in {Inferior_new(k.procs, breakpoints, h)} :
              IF n.some
              THEN \E c \in {cont(n.pid, n.procs[n.pid], killed)} :
                     /\ inferior' = n.pid
                     /\ procs' = [n.procs EXCEPT ![n.pid] = c.p]
                     /\ dbg' = AfterExpect(c.res)
                     /\ out' = k.out \o n.out
                               \o (IF c.res = "Stopped" THEN print_current_frame(c.rip).out
                                   ELSE <<>>)
                     /\ ops' = k.ops \o n.ops \o c.ops
              ELSE /\ inferior' = inferior
                   /\ procs' = n.procs
                   /\ dbg' = dbg
                   /\ out' = k.out \o n.out \o <<Say("ErrorStartingSubprocess", <<>>, 0, 0)>>
                   /\ ops' = k.ops \o n.ops
    /\ lastCmd' = Cmd("Run", <<>>)
    /\ UNCHANGED <<breakpoints, created, patch, aside>>

\* DebuggerCommand::Continue
Continue ==
    /\ dbg = "prompt"
    /\ IF inferior # 0
       THEN \E killed \in BOOLEAN :
              /\ (killed => Alive(procs[inferior]))
              /\ \E c \in {cont(inferior, procs[inferior], killed)} :
                   /\ procs' = [procs EXCEPT ![inferior] = c.p]
                   /\ dbg' = AfterExpect(c.res)
                   /\ out' = <<>>
                   /\ ops' = c.ops
       ELSE /\ out' = <<Say("NoInferiorToContinue", <<>>, 0, 0)>>
            /\ ops' = <<>>
            /\ UNCHANGED <<procs, dbg>>
    /\ lastCmd' = Cmd("Continue", <<>>)
    /\ UNCHANGED <<inferior, breakpoints, created, patch, aside>>

\* DebuggerCommand::Quit
Quit ==
    /\ dbg = "prompt"
    /\ \E k \in {KillExisting} :
         /\ procs' = k.procs
         /\ out' = k.out
         /\ ops' = k.ops
    /\ dbg' = "exited"
    /\ lastCmd' = Cmd("Quit", <<>>)
    /\ UNCHANGED <<inferior, breakpoints, created, patch, aside>>

\* DebuggerCommand::BackTrace taking the inferior out of the slot to print it
BackTrace_taking ==
    /\ dbg = "prompt"
    /\ IF inferior # 0
       THEN \E b \in {print_backtrace(inferior, procs[inferior])} :
              /\ dbg' = AfterExpect(b.res)
              /\ out' = b.out
              /\ ops' = b.ops
       ELSE /\ out' = <<>>
            /\ ops' = <<>>
            /\ dbg' = dbg
    /\ inferior' = 0
    /\ lastCmd' = Cmd("BackTrace", <<>>)
    /\ UNCHANGED <<breakpoints, procs, created, patch, aside>>

\* DebuggerCommand::BackTrace
BackTrace ==
    /\ dbg = "prompt"
    /\ IF inferior # 0
       THEN \E b \in {print_backtrace(inferior, procs[inferior])} :
              /\ dbg' = AfterExpect(b.res)
              /\ out' = b.out
              /\ ops' = b.ops
       ELSE /\ out' = <<>>
            /\ ops' = <<>>
            /\ dbg' = dbg
    /\ lastCmd' = Cmd("BackTrace", <<>>)
    /\ UNCHANGED <<inferior, breakpoints, procs, created, patch, aside>>

\* DebuggerCommand::BreakPoint
BreakPoint ==
    /\ dbg = "prompt"
    /\ \E target \in Targets :
       \E r \in {bp_addr_opt(target)} :
         /\ lastCmd' = Cmd("BreakPoint", target)
         /\ IF r.addr.some
            THEN /\ Len(created) < MaxBreaks
                 /\ created' = Append(created, r.addr.v)
                 /\ IF inferior # 0
                    THEN \E w \in {install_break_points(inferior, procs[inferior], r.addr.v)} :
                           /\ procs' = [procs EXCEPT ![inferior] = w.p]
                           /\ out' = r.out
                                     \o <<Say("SetBreakpoint", <<>>, Len(breakpoints), r.addr.v)>>
                                     \o (IF w.ok THEN <<>>
                                         ELSE <<Say("FailedToInstall", <<>>, 0, r.addr.v)>>)
                           /\ ops' = w.ops
                           /\ UNCHANGED breakpoints
                    ELSE /\ breakpoints' = Append(breakpoints, r.addr.v)
                         /\ out' = r.out
                                   \o <<Say("SetBreakpoint", <<>>, Len(breakpoints), r.addr.v)>>
                         /\ ops' = <<>>
                         /\ UNCHANGED procs
            ELSE /\ out' = r.out
                 /\ ops' = <<>>
                 /\ UNCHANGED <<breakpoints, procs, created>>
    /\ UNCHANGED <<inferior, dbg, patch, aside>>

\* DebuggerCommand::Next letting the process run instead of stepping it
Next_by_cont ==
    /\ dbg = "prompt"
    /\ IF inferior # 0
       THEN \E killed \in BOOLEAN :
              /\ (killed => Alive(procs[inferior]))
              /\ \E s \in {cont(inferior, procs[inferior], killed)} :
                   /\ procs' = [procs EXCEPT ![inferior] = s.p]
                   /\ dbg' = AfterExpect(s.res)
                   /\ out' = IF s.res = "Stopped" THEN print_current_frame(s.rip).out
                             ELSE <<>>
                   /\ ops' = s.ops
       ELSE /\ out' = <<Say("NoInferiorToStep", <<>>, 0, 0)>>
            /\ ops' = <<>>
            /\ UNCHANGED <<procs, dbg>>
    /\ lastCmd' = Cmd("Next", <<>>)
    /\ UNCHANGED <<inferior, breakpoints, created, patch, aside>>

\* DebuggerCommand::Next
Next_ ==
    /\ dbg = "prompt"
    /\ IF inferior # 0
       THEN \E killed \in BOOLEAN :
              /\ (killed => Alive(procs[inferior]))
              /\ \E s \in {next_line(inferior, procs[inferior], killed)} :
                   /\ procs' = [procs EXCEPT ![inferior] = s.p]
                   /\ dbg' = AfterExpect(s.res)
                   /\ out' = IF s.res = "Stopped" THEN print_current_frame(s.rip).out
                             ELSE <<>>
                   /\ ops' = s.ops
       ELSE /\ out' = <<Say("NoInferiorToStep", <<>>, 0, 0)>>
            /\ ops' = <<>>
            /\ UNCHANGED <<procs, dbg>>
    /\ lastCmd' = Cmd("Next", <<>>)
    /\ UNCHANGED <<inferior, breakpoints, created, patch, aside>>

\* Debugger::get_next_command on a line that from_tokens takes for no command:
\* it says so and prompts again
Unrecognized ==
    /\ dbg = "prompt"
    /\ \E tokens \in InputLines :
       \E r \in {from_tokens(tokens)} :
         /\ ~r.cmd.some
         /\ out' = r.out \o <<Say("UnrecognizedCommand", <<>>, 0, 0)>>
         /\ lastCmd' = Cmd("Unrecognized", tokens)
    /\ ops' = <<>>
    /\ UNCHANGED <<inferior, breakpoints, procs, dbg, created, patch, aside>>

\* the loop of Debugger::run
Next == Run \/ Continue \/ Quit \/ BackTrace \/ BreakPoint \/ Next_ \/ Unrecognized

Spec == Init /\ [][Next]_vars

----------------------------------------------------------------------------
(* Inferior::write_byte on its own: a stopped process whose memory holds   *)
(* any word at the patched place is patched with the trap opcode, and the  *)
(* byte the patch returned is written back.                                *)

\* the byte values the patched word is made of
PatchBytes == {85, TrapOpcode, 255}

\* the addresses patched: every offset of one text word, a stack address,
\* and an address that is not mapped
PatchAddrs ==
    ((TextBase + WordSize)..(TextBase + 2 * WordSize - 1)) \cup {StackBase + 3, 0}

PatchInit ==
    /\ inferior = 1
    /\ breakpoints = <<>>
    /\ dbg = "prompt"
    /\ lastCmd = Cmd("none", <<>>)
    /\ out = <<>>
    /\ ops = <<>>
    /\ created = <<>>
    /\ AsideIdle
    /\ \E a \in PatchAddrs, w \in [WordIdx -> PatchBytes] :
         \E mem \in {IF PeekOk(align_addr_to_word(a))
                      THEN PokeWord(FreshMem, align_addr_to_word(a), MkWord(LAMBDA i : w[i]))
                      ELSE FreshMem} :
           /\ procs = <<[FreshProc EXCEPT !.mem = mem]>>
           /\ patch = [phase |-> "fresh", addr |-> a, before |-> mem, orig |-> 0]

\* install_break_points(addr)
Patch ==
    /\ patch.phase = "fresh"
    /\ \E w \in {install_break_points(inferior, procs[inferior], patch.addr)} :
         /\ procs' = [procs EXCEPT ![inferior] = w.p]
         /\ ops' = w.ops
         /\ patch' = [patch EXCEPT !.phase = IF w.ok THEN "patched" ELSE "failed",
                                   !.orig = w.orig]
    /\ lastCmd' = Cmd("Patch", <<>>)
    /\ UNCHANGED <<inferior, breakpoints, dbg, out, created, aside>>

\* write_byte(addr, orig_byte) with the byte the patch returned
Restore ==
    /\ patch.phase = "patched"
    /\ \E w \in {write_byte(inferior, procs[inferior], patch.addr, patch.orig)} :
         /\ procs' = [procs EXCEPT ![inferior] = w.p]
         /\ ops' = w.ops
         /\ patch' = [patch EXCEPT !.phase = IF w.ok THEN "restored" ELSE "failed"]
    /\ lastCmd' = Cmd("Restore", <<>>)
    /\ UNCHANGED <<inferior, breakpoints, dbg, out, created, aside>>

PatchNext == Patch \/ Restore

PatchSpec == PatchInit /\ [][PatchNext]_vars

----------------------------------------------------------------------------
(* Inferior::print_backtrace on its own: the target is any program, so the *)
(* process Backtrace is asked about may be stopped with any frame chain on *)
(* its stack.  Two frame records lie on the stack; the base pointer and    *)
(* the saved base pointers point at either or are 0, the instruction       *)
(* pointer and the return addresses lie in g, f, main or in _start, which  *)
(* has no line.                                                            *)

FrameSlots == {StackBase + WordSize, StackBase + 3 * WordSize}
BasePtrs == FrameSlots \cup {0}
CodePtrs == {Sym.g + 4, Sym.f + 5, Sym.main + 5, Sym.start + 2}

\* the memory with saved base pointer b and return address r in the frame at a
WithFrame(mem, a, b, r) ==
    PokeWord(PokeWord(mem, a, ToWord(b)), a + WordSize, ToWord(r))

UnwindInit ==
    /\ inferior = 1
    /\ breakpoints = <<>>
    /\ dbg = "prompt"
    /\ lastCmd = Cmd("none", <<>>)
    /\ out = <<>>
    /\ ops = <<>>
    /\ created = <<>>
    /\ patch = NoPatch
    /\ AsideIdle
    /\ \E ip \in CodePtrs, bp \in BasePtrs :
       \E b1 \in BasePtrs, b2 \in BasePtrs, r1 \in CodePtrs, r2 \in CodePtrs :
       \E mem \in {WithFrame(WithFrame(FreshMem, StackBase + WordSize, b1, r1),
                             StackBase + 3 * WordSize, b2, r2)} :
         procs = <<[st |-> "stopped", mem |-> mem, rip |-> ip,
                    rsp |-> StackBase, rbp |-> bp]>>

UnwindNext == BackTrace

UnwindSpec == UnwindInit /\ [][UnwindNext]_vars

-----------------------------------------------------------------------------
(* week1 part-2-warmup: dedup.                                             *)

\* the longest vector handed to dedup
MaxVecLen == 6

\* the i32 values the vectors are made of
DedupValues == {0, 1, 3, 4}

\* a session that is not used
SessionIdle ==
    /\ inferior = 0
    /\ breakpoints = <<>>
    /\ procs = <<>>
    /\ dbg = "prompt"
    /\ lastCmd = Cmd("none", <<>>)
    /\ out = <<>>
    /\ ops = <<>>
    /\ created = <<>>
    /\ patch = NoPatch

\* Vec::remove(i), i counted from 0: the elements behind i move down by one
Vec_remove(v, i) == SubSeq(v, 1, i) \o SubSeq(v, i + 2, Len(v))

\* the loop of dedup, with i counted from 0 as in the source
RECURSIVE dedup_loop(_, _, _)
dedup_loop(v, digits, i) ==
    IF i >= Len(v) THEN v
    ELSE IF v[i + 1] \in digits
    THEN dedup_loop(Vec_remove(v, i), digits, i)
    ELSE dedup_loop(v, digits \cup {v[i + 1]}, i + 1)

\* the vector back to front
RECURSIVE Reversed(_)
Reversed(v) == IF v = <<>> THEN <<>> ELSE Append(Reversed(Tail(v)), Head(v))

\* dedup keeping the element that appears last
dedup_keeping_last(v) == Reversed(dedup_loop(Reversed(v), {}, 0))

\* dedup: the vector it leaves in v
dedup(v) == dedup_loop(v, {}, 0)

DedupInit ==
    /\ SessionIdle
    /\ \E n \in 0..MaxVecLen :
       \E v \in [1..n -> DedupValues] :
          warmup = [phase |-> "input", input |-> v, v |-> v]
    /\ rdiff = NoLcs
    /\ farm = NoFarm
    /\ pmap = NoMap
    /\ linked_list = NoList

\* dedup(&mut v)
Dedup ==
    /\ warmup.phase = "input"
    /\ warmup' = [warmup EXCEPT !.phase = "done", !.v = dedup(warmup.v)]
    /\ UNCHANGED <<session, rdiff, farm, pmap, linked_list>>

DedupNext == Dedup

DedupSpec == DedupInit /\ [][DedupNext]_vars

-----------------------------------------------------------------------------
(* week2 rdiff: lcs. Grid is the grid module of the crate: a num_rows by  *)
(* num_cols table of usize, zero when made, whose get and set refuse a     *)
(* position outside the table.                                             *)

\* the longest sequence handed to lcs
MaxSeqLen == 3

\* the lines the sequences are made of
LcsLines == {"a", "b", "d"}

\* Grid::new
Grid_new(num_rows, num_cols) ==
    [num_rows |-> num_rows, num_cols |-> num_cols,
     elems |-> [k \in 1..(num_rows * num_cols) |-> 0]]

\* Grid::size
Grid_size(g) == <<g.num_rows, g.num_cols>>

\* Grid::get
Grid_get(g, row, col) ==
    IF row < g.num_rows /\ col < g.num_cols
    THEN Some(g.elems[row * g.num_cols + col + 1])
    ELSE None

\* Grid::set
Grid_set(g, row, col, val) ==
    IF row < g.num_rows /\ col < g.num_cols
    THEN [ok |-> TRUE, g |-> [g EXCEPT !.elems[row * g.num_cols + col + 1] = val]]
    ELSE [ok |-> FALSE, g |-> g]

\* c.set(row, col, val.unwrap()).unwrap() on the grid of st: a None or an
\* Err panics
SetUnwrap(st, row, col, val) ==
    IF st.panicked \/ ~val.some THEN [st EXCEPT !.panicked = TRUE]
    ELSE LET w == Grid_set(st.c, row, col, val.v)
         IN  IF w.ok THEN [st EXCEPT !.c = w.g] ELSE [st EXCEPT !.panicked = TRUE]

\* std::cmp::max of two values read from the grid
max(a, b) ==
    IF a.some /\ b.some THEN Some(IF a.v >= b.v THEN a.v ELSE b.v) ELSE None

\* for i in 0..m + 1 { c.set(i, 0, 0).unwrap(); }
RECURSIVE lcs_col0(_, _, _)
lcs_col0(st, i, m) ==
    IF i >= m + 1 THEN st ELSE lcs_col0(SetUnwrap(st, i, 0, Some(0)), i + 1, m)

\* for j in 0..n + 1 { c.set(0, j, 0).unwrap(); }
RECURSIVE lcs_row0(_, _, _)
lcs_row0(st, j, n) ==
    IF j >= n + 1 THEN st ELSE lcs_row0(SetUnwrap(st, 0, j, Some(0)), j + 1, n)

\* the body of the inner loop with a mismatch carrying the diagonal cell over
lcs_cell_diagonal(st, seq1, seq2, i, j) ==
    IF seq1[i + 1] = seq2[j + 1]
    THEN LET d == Grid_get(st.c, i, j)
         IN  SetUnwrap(st, i + 1, j + 1, IF d.some THEN Some(d.v + 1) ELSE None)
    ELSE SetUnwrap(st, i + 1, j + 1, Grid_get(st.c, i, j))

\* the body of the inner loop: cell (i + 1, j + 1)
lcs_cell(st, seq1, seq2, i, j) ==
    IF seq1[i + 1] = seq2[j + 1]
    THEN LET d == Grid_get(st.c, i, j)
         IN  SetUnwrap(st, i + 1, j + 1, IF d.some THEN Some(d.v + 1) ELSE None)
    ELSE SetUnwrap(st, i + 1, j + 1,
                   max(Grid_get(st.c, i + 1, j), Grid_get(st.c, i, j + 1)))

\* for i in 0..m { for j in 0..n { .. } }
RECURSIVE lcs_fill(_, _, _, _, _)
lcs_fill(st, seq1, seq2, i, j) ==
    IF i >= Len(seq1) THEN st
    ELSE IF j >= Len(seq2) THEN lcs_fill(st, seq1, seq2, i + 1, 0)
    ELSE lcs_fill(lcs_cell(st, seq1, seq2, i, j), seq1, seq2, i, j + 1)

\* lcs: the grid it returns, or that it panicked
lcs(seq1, seq2) ==
    LET m == Len(seq1)
        n == Len(seq2)
        c == [c |-> Grid_new(m + 1, n + 1), panicked |-> FALSE]
    IN  lcs_fill(lcs_row0(lcs_col0(c, 0, m), 0, n), seq1, seq2, 0, 0)

LcsInit ==
    /\ SessionIdle
    /\ warmup = NoDedup
    /\ farm = NoFarm
    /\ pmap = NoMap
    /\ linked_list = NoList
    /\ \E m \in 0..MaxSeqLen, n \in 0..MaxSeqLen :
       \E seq1 \in [1..m -> LcsLines], seq2 \in [1..n -> LcsLines] :
          rdiff = [phase |-> "input", seq1 |-> seq1, seq2 |-> seq2, c |-> <<>>,
                   panicked |-> FALSE]

\* lcs(&seq1, &seq2)
Lcs ==
    /\ rdiff.phase = "input"
    /\ \E r \in {lcs(rdiff.seq1, rdiff.seq2)} :
         rdiff' = [rdiff EXCEPT !.phase = "done", !.c = r.c, !.panicked = r.panicked]
    /\ UNCHANGED <<session, warmup, farm, pmap, linked_list>>

LcsNext == Lcs

LcsSpec == LcsInit /\ [][LcsNext]_vars

-----------------------------------------------------------------------------
(* week5 farm: main shares a queue of numbers behind a mutex with          *)
(* num_threads worker threads, each of which pops and factors numbers      *)
(* until the queue is empty.                                               *)

\* the most worker threads (num_cpus::get()) and the longest input queue
MaxThreads == 2
MaxNumbers == 3

\* the numbers given on the command line
FarmNumbers == {4, 12}

\* (num as f64).sqrt().floor() as u32
SqrtFloor(num) == CHOOSE k \in 0..num : k * k <= num /\ (k + 1) * (k + 1) > num

\* is_prime
is_prime(num) ==
    IF num <= 1 THEN FALSE
    ELSE \A factor \in 2..(SqrtFloor(num) - 1) : num % factor # 0

\* the loops of factor_number: the factors from factor upwards
RECURSIVE factors_from(_, _, _, _)
factors_from(num, curr_num, factor, factors) ==
    IF factor >= num THEN factors
    ELSE IF curr_num % factor = 0
    THEN factors_from(num, curr_num \div factor, factor, Append(factors, factor))
    ELSE factors_from(num, curr_num, factor + 1, factors)

\* factor_number: the factors it prints
factor_number(num) ==
    IF num = 1 \/ is_prime(num) THEN <<num>> ELSE factors_from(num, num, 2, <<>>)

\* VecDeque::pop_front without the removal
pop_front_leaving(q) ==
    IF q = <<>> THEN [num |-> None, q |-> q] ELSE [num |-> Some(Head(q)), q |-> q]

\* VecDeque::pop_front
pop_front(q) ==
    IF q = <<>> THEN [num |-> None, q |-> q] ELSE [num |-> Some(Head(q)), q |-> Tail(q)]

FarmInit ==
    /\ SessionIdle
    /\ warmup = NoDedup
    /\ rdiff = NoLcs
    /\ pmap = NoMap
    /\ linked_list = NoList
    /\ \E num_threads \in 1..MaxThreads, n \in 0..MaxNumbers :
       \E numbers \in [1..n -> FarmNumbers] :
          farm = [main |-> "spawn", num_threads |-> num_threads, numbers |-> numbers,
                  vec_deq |-> numbers, guard |-> 0, threads |-> 0, joined |-> 0,
                  pc |-> [t \in 1..num_threads |-> "unspawned"],
                  num |-> [t \in 1..num_threads |-> 0],
                  popped |-> <<>>, factored |-> <<>>]

\* main: one turn of the loop that spawns the threads
farm_spawn ==
    /\ farm.main = "spawn"
    /\ farm' = [farm EXCEPT !.threads = @ + 1,
                            !.pc[farm.threads + 1] = "lock",
                            !.main = IF farm.threads + 1 = farm.num_threads
                                     THEN "join" ELSE "spawn"]
    /\ UNCHANGED <<session, warmup, rdiff, pmap, linked_list>>

\* a worker evaluates the loop condition: vec.lock().unwrap() takes the mutex
worker_lock ==
    /\ \E t \in 1..farm.num_threads :
       /\ farm.pc[t] = "lock"
       /\ farm.guard = 0
       /\ farm' = [farm EXCEPT !.guard = t, !.pc[t] = "pop"]
    /\ UNCHANGED <<session, warmup, rdiff, pmap, linked_list>>

\* .pop_front() with the guard dropped as soon as the number is out, as it
\* would be were the number bound by a let before the loop body
worker_pop_front_releasing ==
    /\ \E t \in 1..farm.num_threads :
       /\ farm.pc[t] = "pop"
       /\ \E r \in {pop_front(farm.vec_deq)} :
            IF r.num.some
            THEN farm' = [farm EXCEPT !.vec_deq = r.q, !.num[t] = r.num.v, !.pc[t] = "factor",
                                      !.guard = 0,
                                      !.popped = Append(@, [num |-> r.num.v, by |-> t])]
            ELSE farm' = [farm EXCEPT !.vec_deq = r.q, !.guard = 0, !.pc[t] = "done"]
    /\ UNCHANGED <<session, warmup, rdiff, pmap, linked_list>>

\* .pop_front(): Some(num) enters the body with the guard still alive, None
\* leaves the loop and the thread, dropping the guard
worker_pop_front ==
    /\ \E t \in 1..farm.num_threads :
       /\ farm.pc[t] = "pop"
       /\ \E r \in {pop_front(farm.vec_deq)} :
            IF r.num.some
            THEN farm' = [farm EXCEPT !.vec_deq = r.q, !.num[t] = r.num.v, !.pc[t] = "factor",
                                      !.popped = Append(@, [num |-> r.num.v, by |-> t])]
            ELSE farm' = [farm EXCEPT !.vec_deq = r.q, !.guard = 0, !.pc[t] = "done"]
    /\ UNCHANGED <<session, warmup, rdiff, pmap, linked_list>>

\* the body of the loop: factor_number(num)
worker_factor_number ==
    /\ \E t \in 1..farm.num_threads :
       /\ farm.pc[t] = "factor"
       /\ farm' = [farm EXCEPT !.pc[t] = "drop",
                               !.factored = Append(@, [num |-> farm.num[t], by |-> t,
                                                       factors |-> factor_number(farm.num[t])])]
    /\ UNCHANGED <<session, warmup, rdiff, pmap, linked_list>>

\* the end of the body: the guard of the loop condition is dropped
worker_drop_guard ==
    /\ \E t \in 1..farm.num_threads :
       /\ farm.pc[t] = "drop"
       /\ farm' = [farm EXCEPT !.guard = 0, !.pc[t] = "lock"]
    /\ UNCHANGED <<session, warmup, rdiff, pmap, linked_list>>

\* main: thread.join().unwrap() on the next handle, once its thread is over
main_join ==
    /\ farm.main = "join"
    /\ farm.joined < farm.num_threads
    /\ farm.pc[farm.joined + 1] = "done"
    /\ farm' = [farm EXCEPT !.joined = @ + 1]
    /\ UNCHANGED <<session, warmup, rdiff, pmap, linked_list>>

\* main: every handle is joined, main prints the time and returns
main_return ==
    /\ farm.main = "join"
    /\ farm.joined = farm.num_threads
    /\ farm' = [farm EXCEPT !.main = "done"]
    /\ UNCHANGED <<session, warmup, rdiff, pmap, linked_list>>

FarmNext ==
    \/ farm_spawn
    \/ worker_lock
    \/ worker_pop_front
    \/ worker_factor_number
    \/ worker_drop_guard
    \/ main_join
    \/ main_return

FarmSpec == FarmInit /\ [][FarmNext]_vars

-----------------------------------------------------------------------------
(* week6 parallel_map: main sends every (index, input) down a task         *)
(* channel, num_threads workers apply f and send (index, output) back,     *)
(* and main stores each result at its index.                               *)

\* the most worker threads and the longest input vector
MaxWorkers == 2
MaxInputLen == 3

\* the elements of the input vector
MapInputs == {2, 3}

\* the closure main passes as f
f(num) == num * num

\* U::default() for the numbers of main
Default == 0

\* output_vec[index] = output, with the index counted from 0; here the result
\* goes to the first place that still holds the default
store_in_arrival_order(output_vec, index, output) ==
    IF \E k \in DOMAIN output_vec : output_vec[k] = Default
    THEN [output_vec EXCEPT ![CHOOSE k \in DOMAIN output_vec :
                                 /\ output_vec[k] = Default
                                 /\ \A j \in 1..(k - 1) : output_vec[j] # Default] = output]
    ELSE output_vec

\* output_vec[index] = output, with the index counted from 0
store(output_vec, index, output) == [output_vec EXCEPT ![index + 1] = output]

MapInit ==
    /\ SessionIdle
    /\ warmup = NoDedup
    /\ rdiff = NoLcs
    /\ farm = NoFarm
    /\ linked_list = NoList
    /\ \E num_threads \in 0..MaxWorkers, len \in 0..MaxInputLen :
       \E input_vec \in [1..len -> MapInputs] :
          pmap = [main |-> "spawn", num_threads |-> num_threads, input |-> input_vec,
                  len |-> len, output_vec |-> [k \in 1..len |-> Default],
                  spawned |-> 0, sent |-> 0, collected |-> 0,
                  tasks |-> <<>>, task_sender |-> TRUE, results |-> <<>>,
                  pc |-> [t \in 1..num_threads |-> "unspawned"],
                  task |-> [t \in 1..num_threads |-> <<>>],
                  received |-> <<>>, arrived |-> <<>>]

\* main: one turn of the loop that spawns the workers, or its end
map_spawn ==
    /\ pmap.main = "spawn"
    /\ IF pmap.spawned < pmap.num_threads
       THEN pmap' = [pmap EXCEPT !.spawned = @ + 1, !.pc[pmap.spawned + 1] = "recv"]
       ELSE pmap' = [pmap EXCEPT !.main = "send"]
    /\ UNCHANGED <<session, warmup, rdiff, farm, linked_list>>

\* map_send without drop(task_sender): the sender lives on while main collects
map_send_keeping_sender ==
    /\ pmap.main = "send"
    /\ IF pmap.sent < pmap.len
       THEN pmap' = [pmap EXCEPT !.sent = @ + 1,
                                 !.tasks = Append(@, <<pmap.sent, pmap.input[pmap.sent + 1]>>)]
       ELSE pmap' = [pmap EXCEPT !.main = "collect"]
    /\ UNCHANGED <<session, warmup, rdiff, farm, linked_list>>

\* main: task_sender.send((i, input)) for the next element, or drop(task_sender)
\* once all are sent
map_send ==
    /\ pmap.main = "send"
    /\ IF pmap.sent < pmap.len
       THEN pmap' = [pmap EXCEPT !.sent = @ + 1,
                                 !.tasks = Append(@, <<pmap.sent, pmap.input[pmap.sent + 1]>>)]
       ELSE pmap' = [pmap EXCEPT !.task_sender = FALSE, !.main = "collect"]
    /\ UNCHANGED <<session, warmup, rdiff, farm, linked_list>>

\* a worker: task_receiver.recv() hands over the oldest task
worker_recv ==
    /\ \E t \in 1..pmap.num_threads :
       /\ pmap.pc[t] = "recv"
       /\ pmap.tasks # <<>>
       /\ pmap' = [pmap EXCEPT !.tasks = Tail(@), !.task[t] = Head(pmap.tasks),
                               !.pc[t] = "send",
                               !.received = Append(@, [index |-> Head(pmap.tasks)[1],
                                                       by |-> t])]
    /\ UNCHANGED <<session, warmup, rdiff, farm, linked_list>>

\* a worker: recv() fails on the empty channel whose sender is dropped, and
\* the thread ends
worker_exit ==
    /\ \E t \in 1..pmap.num_threads :
       /\ pmap.pc[t] = "recv"
       /\ pmap.tasks = <<>>
       /\ ~pmap.task_sender
       /\ pmap' = [pmap EXCEPT !.pc[t] = "done"]
    /\ UNCHANGED <<session, warmup, rdiff, farm, linked_list>>

\* a worker: f(input), then result_sender.send((index, output))
worker_send ==
    /\ \E t \in 1..pmap.num_threads :
       /\ pmap.pc[t] = "send"
       /\ pmap' = [pmap EXCEPT !.results = Append(@, <<pmap.task[t][1], f(pmap.task[t][2])>>),
                               !.task[t] = <<>>, !.pc[t] = "recv"]
    /\ UNCHANGED <<session, warmup, rdiff, farm, linked_list>>

\* main: result_receiver.recv() and output_vec[index] = output
map_collect ==
    /\ pmap.main = "collect"
    /\ pmap.collected < pmap.len
    /\ pmap.results # <<>>
    /\ pmap' = [pmap EXCEPT !.results = Tail(@), !.collected = @ + 1,
                            !.output_vec = store(@, Head(pmap.results)[1],
                                                 Head(pmap.results)[2]),
                            !.arrived = Append(@, Head(pmap.results)[1])]
    /\ UNCHANGED <<session, warmup, rdiff, farm, linked_list>>

\* main: len results are in, output_vec is returned
map_return ==
    /\ pmap.main = "collect"
    /\ pmap.collected = pmap.len
    /\ pmap' = [pmap EXCEPT !.main = "done"]
    /\ UNCHANGED <<session, warmup, rdiff, farm, linked_list>>

MapNext ==
    \/ map_spawn
    \/ map_send
    \/ worker_recv
    \/ worker_exit
    \/ worker_send
    \/ map_collect
    \/ map_return

MapSpec == MapInit /\ [][MapNext]_vars

\* main and the workers are threads the scheduler keeps running: a step that
\* can be taken is not put off for ever
MapFairSpec == MapSpec /\ WF_vars(MapNext)

-----------------------------------------------------------------------------
(* week3 linked_list: a singly linked list of boxed nodes. The boxes are   *)
(* cells of a heap: head and next are 0 for None or the cell of the node.  *)

\* the most nodes a list is grown to
MaxListLen == 3

\* the values pushed
ListValues == {1, 2}

\* the cells a Box may be allocated at
Cells == 1..(MaxListLen + 1)

\* usize::MAX, what a wrapping size - 1 gives at 0
UsizeMax == Huge

\* LinkedList::new
LinkedList_new == [head |-> 0, size |-> 0, heap |-> <<>>, panicked |-> FALSE]

\* LinkedList::get_size
get_size(l) == l.size

\* LinkedList::is_empty
is_empty(l) == get_size(l) = 0

\* push_front with the new node linked to nothing
LinkedList_push_front_unlinked(l, value, cell) ==
    [l EXCEPT !.heap = (cell :> [value |-> value, next |-> 0]) @@ l.heap,
              !.head = cell,
              !.size = IF l.size + 1 > UsizeMax THEN UsizeMax ELSE l.size + 1]

\* LinkedList::push_front, the Box of the new node allocated at cell
LinkedList_push_front(l, value, cell) ==
    [l EXCEPT !.heap = (cell :> [value |-> value, next |-> l.head]) @@ l.heap,
              !.head = cell,
              !.size = IF l.size + 1 > UsizeMax THEN UsizeMax ELSE l.size + 1]

\* pop_front without self.size -= 1
LinkedList_pop_front_uncounted(l) ==
    IF l.head = 0 THEN {[l |-> l, ret |-> None]}
    ELSE {[l |-> [l EXCEPT !.head = l.heap[l.head].next,
                           !.heap = [c \in DOMAIN l.heap \ {l.head} |-> l.heap[c]]],
           ret |-> Some(l.heap[l.head].value)]}

\* LinkedList::pop_front: the outcomes it can have. self.size -= 1 at 0
\* panics in a build with overflow checks and wraps in one without.
LinkedList_pop_front(l) ==
    IF l.head = 0 THEN {[l |-> l, ret |-> None]}
    ELSE LET node == l.heap[l.head]
             rest == [l EXCEPT !.head = node.next,
                               !.heap = [c \in DOMAIN l.heap \ {l.head} |-> l.heap[c]]]
         IN  IF l.size = 0
             THEN {[l |-> [rest EXCEPT !.panicked = TRUE], ret |-> None],
                   [l |-> [rest EXCEPT !.size = UsizeMax], ret |-> Some(node.value)]}
             ELSE {[l |-> [rest EXCEPT !.size = l.size - 1], ret |-> Some(node.value)]}

\* LinkedListIter::next until it returns None, starting at current
RECURSIVE LinkedListIter_collect(_, _)
LinkedListIter_collect(heap, current) ==
    IF current = 0 THEN <<>>
    ELSE <<heap[current].value>> \o LinkedListIter_collect(heap, heap[current].next)

\* (&list).into_iter() iterated to its end
into_iter(l) == LinkedListIter_collect(l.heap, l.head)

ListInit ==
    /\ SessionIdle
    /\ warmup = NoDedup
    /\ rdiff = NoLcs
    /\ farm = NoFarm
    /\ pmap = NoMap
    /\ linked_list = [op |-> "new", list |-> LinkedList_new, ret |-> None, pending |-> <<>>]

\* list.push_front(value)
PushFront ==
    /\ linked_list.op # "none"
    /\ ~linked_list.list.panicked
    /\ Len(linked_list.pending) < MaxListLen
    /\ \E value \in ListValues, cell \in Cells \ DOMAIN linked_list.list.heap :
          linked_list' = [op |-> "push_front",
                          list |-> LinkedList_push_front(linked_list.list, value, cell),
                          ret |-> None,
                          pending |-> <<value>> \o linked_list.pending]
    /\ UNCHANGED <<session, warmup, rdiff, farm, pmap>>

\* list.pop_front()
PopFront ==
    /\ linked_list.op # "none"
    /\ ~linked_list.list.panicked
    /\ \E r \in LinkedList_pop_front(linked_list.list) :
          linked_list' = [op |-> "pop_front", list |-> r.l, ret |-> r.ret,
                          pending |-> IF linked_list.pending = <<>> THEN <<>>
                                      ELSE Tail(linked_list.pending)]
    /\ UNCHANGED <<session, warmup, rdiff, farm, pmap>>

\* for v in &list
Iterate ==
    /\ linked_list.op # "none"
    /\ ~linked_list.list.panicked
    /\ linked_list' = [linked_list EXCEPT !.op = "iter", !.ret = into_iter(linked_list.list)]
    /\ UNCHANGED <<session, warmup, rdiff, farm, pmap>>

ListNext == PushFront \/ PopFront \/ Iterate

ListSpec == ListInit /\ [][ListNext]_vars

----------------------------------------------------------------------------
(* Properties.                                                             *)

\* the session holds a handle to a process that is alive
HasLive == inferior # 0 /\ Alive(procs[inferior])

\* p is stopped right behind a trap byte it has just executed
StoppedAtTrap(p) ==
    Alive(p) /\ (p.rip - 1) \in TextAddrs /\ p.mem[p.rip - 1] = TrapOpcode

\* the kernel calls of s that write memory or resume the process
Moves(s) == SelectSeq(s, LAMBDA k : k.op \in {"poke", "step", "cont"})

\* the processes that are alive
LiveProcs == {pid \in DOMAIN procs : Alive(procs[pid])}

\* the last command was a Breakpoint that resolved to address a
ResolvedBreak(a) ==
    /\ lastCmd.cmd = "BreakPoint"
    /\ \E i \in DOMAIN out : out[i].tag = "SetBreakpoint" /\ out[i].addr = a

\* the last command was a Run whose spawn succeeded
RunSpawned == lastCmd.cmd = "Run" /\ \E i \in DOMAIN ops : ops[i].op = "cont"

\* C1: a Continue issued while the process is stopped at an installed trap
\* restores the original byte at the stop address, single-steps one
\* instruction, re-installs the trap and only then resumes.
C1_ContinueStepsOverTrap ==
    [][(/\ dbg = "prompt"
        /\ inferior # 0
        /\ StoppedAtTrap(procs[inferior])
        /\ lastCmd'.cmd = "Continue")
       => LET m == Moves(ops')
              site == align_addr_to_word(procs[inferior].rip - 1)
          IN  /\ Len(m) >= 4
              /\ m[1].op = "poke" /\ m[1].addr = site
              /\ m[2].op = "step"
              /\ m[3].op = "poke" /\ m[3].addr = site
              /\ m[4].op = "cont"]_vars

\* C2: in every reachable state at most one process spawned by the session
\* is alive (neither terminated nor reaped).
C2_AtMostOneLiveProcess == Cardinality(LiveProcs) <= 1

\* C3: once Quit has returned, no process spawned by the session remains.
C3_QuitLeavesNoProcess == dbg = "exited" => LiveProcs = {}

\* C4: no sequence of commands makes the debugger terminate abnormally: it is
\* at its prompt, or it has returned from Quit.
C4_NeverTerminatesAbnormally == dbg \in {"prompt", "exited"}

\* C5: when the resume performed by Run ends with the process exited or
\* killed by a signal, the inferior slot is cleared.
C5_SlotClearedWhenRunEnds ==
    (/\ lastCmd.cmd = "Run"
     /\ \E i \in DOMAIN ops : ops[i].op = "cont" /\ ~Alive(procs[ops[i].pid]))
    => inferior = 0

\* C6: the index reported for the k-th Breakpoint command that resolved
\* (counting from 0) is k.
C6_IndexIsInsertionOrder ==
    \A i \in DOMAIN out :
        (lastCmd.cmd = "BreakPoint" /\ out[i].tag = "SetBreakpoint")
        => out[i].n = Len(created) - 1

\* C7: the breakpoint table holds one entry for every Breakpoint command that
\* resolved, in the order of the commands, whether or not a process existed.
C7_TableHoldsEveryBreakpoint == breakpoints = created

\* C8: a Run that spawns installs the trap of every breakpoint created so far
\* in the new process before it resumes it, and resumes it exactly once.
C8_RunInstallsEveryBreakpoint ==
    RunSpawned =>
        LET c == CHOOSE i \in DOMAIN ops : ops[i].op = "cont" IN
        /\ \A j \in DOMAIN created :
             \E i \in 1..(c - 1) :
                /\ ops[i].op = "poke"
                /\ ops[i].pid = inferior
                /\ ops[i].addr = align_addr_to_word(created[j])
        /\ \A i \in DOMAIN ops : ops[i].op = "cont" => i = c

\* C9: a Breakpoint command that resolves installs the trap byte at once when
\* a traced process exists; when none exists it touches no process memory and
\* records the breakpoint as pending.
C9_InstalledNowOrPending ==
    \A a \in Mapped :
        ResolvedBreak(a) =>
            IF HasLive
            THEN procs[inferior].mem[a] = TrapOpcode
            ELSE /\ ops = <<>>
                 /\ breakpoints # <<>>
                 /\ breakpoints[Len(breakpoints)] = a

\* the targets of the model that no strategy resolves
Unresolvable == {<<"*", "z">>, <<"*">>, <<"9">>, <<"h">>}

\* the diagnostic that names the strategy a target's form selects
StrategySaid(target) ==
    IF target[1] = "*" THEN "InvalidRawAddress"
    ELSE IF \A i \in DOMAIN target : to_digit(target[i], 10) >= 0 THEN "NoSourceForLine"
    ELSE "NoFunctionNamed"

\* C10: a Breakpoint command whose target cannot be resolved reports the
\* failure, naming the strategy attempted, and changes no state: table,
\* next index, inferior slot and process memory stay as they were.
C10_UnresolvedChangesNothing ==
    [][(lastCmd'.cmd = "BreakPoint" /\ lastCmd'.arg \in Unresolvable)
       => /\ Len(out') = 1
          /\ out'[1].tag = StrategySaid(lastCmd'.arg)
          /\ ops' = <<>>
          /\ UNCHANGED <<breakpoints, created, inferior, procs, dbg>>]_vars

\* an unknown function is refused with two breakpoints set and a live process
C10_Witness ==
    /\ lastCmd = Cmd("BreakPoint", <<"h">>)
    /\ out = <<Say("NoFunctionNamed", <<"h">>, 0, 0)>>
    /\ Len(breakpoints) = 2
    /\ HasLive

\* C11: patching any address (aligned or not) with the trap opcode and then
\* writing back the byte the patch returned leaves the byte at that address,
\* its whole word and the rest of the memory as they were before the patch;
\* in between the byte at the address is the trap opcode.
C11_PatchRestoreRoundTrip ==
    /\ patch.phase = "patched" =>
          /\ procs[inferior].mem[patch.addr] = TrapOpcode
          /\ patch.orig = patch.before[patch.addr]
    /\ patch.phase = "restored" => procs[inferior].mem = patch.before

C11_Witness ==
    /\ patch.phase = "restored"
    /\ patch.addr # align_addr_to_word(patch.addr)
    /\ patch.orig = 85
    /\ ops = <<K("peek", inferior, align_addr_to_word(patch.addr)),
               K("poke", inferior, align_addr_to_word(patch.addr))>>
    /\ procs[inferior].mem[patch.addr] = 85

\* how the resume of process pid may end once its execution heads for the trap
\* at a: killed from outside on the way, or reported stopped one byte past a
HitReported(pid, a, after, log) ==
    \/ log[Len(log)] = K("Signaled", pid, 0)
    \/ /\ log[Len(log)] = K("Stopped(SIGTRAP)", pid, a + 1)
       /\ Alive(after) /\ after.rip = a + 1 /\ after.mem[a] = TrapOpcode

\* the process runs on from p: if the first thing that ends its run is the
\* fetch of a trap byte as an instruction, the resume was reported as that hit
RECURSIVE TrapAhead(_, _, _, _, _)
TrapAhead(p, fuel, pid, after, log) ==
    IF fuel = 0 \/ p.rip \notin TextAddrs THEN TRUE
    ELSE IF p.mem[p.rip] = TrapOpcode THEN HitReported(pid, p.rip, after, log)
    ELSE \E r \in {Step(p)} :
           r.ev = "ok" => TrapAhead(r.p, fuel - 1, pid, after, log)

\* C12: when a process is resumed (by Run after the installs, or by Continue)
\* and its execution reaches an address that holds the trap byte, the resume
\* returns Stopped with the instruction pointer one past that address, at
\* every hit, unless the process was killed from outside before it got
\* there; it never runs on past the trap.
C12_TrapHitStopsAtNextByte ==
    [][/\ (lastCmd'.cmd = "Continue" /\ HasLive) =>
            TrapAhead(procs[inferior], Fuel, inferior, procs'[inferior], ops')
       /\ (lastCmd'.cmd = "Run" /\ Len(procs') = Len(procs) + 1 /\ inferior' = Len(procs')) =>
            \E p \in {InstallAll(inferior', FreshProc, breakpoints).p} :
              TrapAhead(p, Fuel, inferior', procs'[inferior'], ops')]_vars

\* a second hit: Continue from the trap at the entry of g has reached the
\* trap further on in g
C12_Witness ==
    /\ lastCmd.cmd = "Continue"
    /\ HasLive
    /\ procs[inferior].rip = Sym.g + 4
    /\ procs[inferior].mem[Sym.g + 3] = TrapOpcode
    /\ procs[inferior].mem[Sym.g] = TrapOpcode
    /\ ops[Len(ops)] = K("Stopped(SIGTRAP)", inferior, Sym.g + 4)

\* the diagnostics that tell the operator there is no process to act on
NoActiveProcess == {"NoInferiorToContinue", "NoInferiorToStep", "NoInferiorToBacktrace"}

\* C13: Continue, Next and Backtrace issued while the slot is empty each
\* print a no-active-process diagnostic, issue no kernel call and change
\* neither the slot, the table, the processes nor the debugger.
C13_NoProcessIsReported ==
    [][(inferior = 0 /\ lastCmd'.cmd \in {"Continue", "Next", "BackTrace"}) =>
          /\ Len(out') = 1
          /\ out'[1].tag \in NoActiveProcess
          /\ ops' = <<>>
          /\ UNCHANGED <<inferior, breakpoints, procs, created, dbg>>]_vars

\* C14: a Run whose spawn fails (the target cannot be launched, or the trace
\* handshake fails) tells the operator and leaves the slot empty, also when
\* a previous process was killed at the start of that Run: the slot never
\* keeps a handle to a terminated process.
C14_FailedSpawnLeavesNoProcess ==
    (lastCmd.cmd = "Run" /\ \E i \in DOMAIN out : out[i].tag = "ErrorStartingSubprocess")
       => /\ inferior = 0
          /\ \E i \in DOMAIN out :
               out[i].tag \in {"FailedToSpawn", "UnexpectedWaitStatus", "WaitpidFailed"}

\* the position in log of the launch of a child, or 0 when none was tried
SpawnAt(log) ==
    IF \E i \in DOMAIN log : log[i].op = "spawn"
    THEN CHOOSE i \in DOMAIN log : log[i].op = "spawn"
    ELSE 0

\* C15: spawn hands back a process only if the child was launched and its
\* first wait outcome is a stop by SIGTRAP; a launch failure, an exit, a kill
\* by signal, a stop by another signal and a wait error all give a spawn
\* failure that is reported; on success the process has not been resumed
\* before it is handed back (Run's own resume is the only one).
C15_SpawnOnlyAfterTrapStop ==
    [][lastCmd'.cmd = "Run" =>
         LET s == SpawnAt(ops')
             pid == Len(procs) + 1
             handed == inferior' = pid /\ Len(procs') = pid
             trapStop == /\ s + 2 <= Len(ops')
                         /\ ops'[s] = K("spawn", pid, 0)
                         /\ ops'[s + 1] = K("waitpid", pid, 0)
                         /\ ops'[s + 2] = K("Stopped(SIGTRAP)", pid, 0)
         IN  /\ s # 0
             /\ handed <=> trapStop
             /\ ~handed => /\ inferior' = inferior
                           /\ \E i \in DOMAIN out' : out'[i].tag = "ErrorStartingSubprocess"
             /\ handed =>
                  /\ Len(SelectSeq(ops', LAMBDA k : k.op \in {"cont", "step"})) = 1
                  /\ \A i \in (s + 3)..Len(ops') :
                       ops'[i].op = "cont" =>
                         \A j \in (s + 3)..(i - 1) : ops'[j].op \in {"peek", "poke"}]_vars

\* a Run handed a process back after two breakpoints were installed in it
C15_Witness ==
    /\ lastCmd.cmd = "Run"
    /\ inferior = Len(procs)
    /\ Len(breakpoints) = 2
    /\ HasLive
    /\ SpawnAt(ops) # 0
    /\ SpawnAt(ops) + 2 <= Len(ops)
    /\ ops[SpawnAt(ops) + 2] = K("Stopped(SIGTRAP)", inferior, 0)

\* C16: a Run or Quit that finds in the slot a process that has already
\* exited or been killed (and was reaped by the wait that saw it) sends the
\* kill, which fails, does not wait for the process, prints the failure, and
\* still completes: Quit leaves the loop, Run goes on to launch the target.
C16_KillOfDeadProcessIsLogged ==
    [][(inferior # 0 /\ ~Alive(procs[inferior]) /\ lastCmd'.cmd \in {"Run", "Quit"}) =>
          /\ ops'[1] = K("kill", inferior, 0)
          /\ \A i \in DOMAIN ops' : ops'[i] # K("reap", inferior, 0)
          /\ out'[1] = Say("KillingRunningInferior", <<>>, inferior, 0)
          /\ out'[2] = Say("FailedToKill", <<>>, inferior, 0)
          /\ procs'[inferior] = procs[inferior]
          /\ IF lastCmd'.cmd = "Quit"
             THEN dbg' = "exited" /\ Len(ops') = 1
             ELSE dbg' = "prompt" /\ SpawnAt(ops') = 2]_vars

\* a Run found an exited process in the slot and then started a new one
C16_Witness ==
    /\ lastCmd.cmd = "Run"
    /\ Len(out) >= 2
    /\ out[2] = Say("FailedToKill", <<>>, 1, 0)
    /\ inferior = 2
    /\ HasLive
    /\ dbg = "prompt"

\* the Status values the waits of one command returned, in order
Statuses(log) ==
    SelectSeq(log, LAMBDA k : k.op \in {"Stopped(SIGTRAP)", "Stopped(SIGSEGV)",
                                        "Stopped(SIGILL)", "Exited", "Signaled"})

C18_NextTerminatesAndAdvances ==
    [][(HasLive /\ lastCmd'.cmd = "Next") =>
          /\ dbg' # "blocked"
          /\ procs'[inferior] # procs[inferior]]_vars

\* the words on the stack of p, from the top of the stack upwards
StackWords(p) ==
    [i \in 1..((StackTop - p.rsp) \div WordSize) |->
        WordVal(PeekWord(p.mem, p.rsp + (i - 1) * WordSize))]

\* the functions of the call chain p is stopped in, innermost first: the
\* function of the instruction pointer, then the function of every return
\* address on the stack (a call pushes an address of the text, a saved base
\* pointer is 0 or an address of the stack)
CallChain(p) ==
    LET rets == SelectSeq(StackWords(p),
                          LAMBDA v : v \in TextAddrs /\ get_function_from_addr(v).some)
    IN  <<get_function_from_addr(p.rip).v>>
        \o [i \in 1..Len(rets) |-> get_function_from_addr(rets[i]).v]

\* the function names of the frames printed
FrameNames(o) == [i \in 1..Len(o) |-> o[i].name]

\* C19: Backtrace on a process stopped in a call chain whose outermost
\* function is main prints one frame per function of the chain, innermost
\* first and main last, and reads the memory of no frame beyond main's
\* (two words per frame below main).
C19_BacktracePrintsCallChain ==
    (/\ lastCmd.cmd = "BackTrace"
     /\ HasLive
     /\ procs[inferior].rsp \in StackAddrs
     /\ get_function_from_addr(procs[inferior].rip).some
     /\ CallChain(procs[inferior])[Len(CallChain(procs[inferior]))] = NameMain)
       => /\ \A i \in DOMAIN out : out[i].tag = "Frame"
          /\ FrameNames(out) = CallChain(procs[inferior])
          /\ Len(SelectSeq(ops, LAMBDA k : k.op = "peek")) = 2 * (Len(out) - 1)

\* the addresses the walk read a saved base pointer from, in order: of the
\* two words read per frame, the second
BasePtrReads(log) ==
    LET peeks == SelectSeq(log, LAMBDA k : k.op = "peek")
    IN  [i \in 1..(Len(peeks) \div 2) |-> peeks[2 * i].addr]

\* C20: the backtrace walk terminates and makes progress: it never reads a
\* saved base pointer from the same address twice, so a frame chain with a
\* cycle or without a frame of main does not keep it going for ever; and a
\* frame that resolves to no line or function is skipped, the walk goes on
\* to the frame above it.
C20_BacktraceWalkTerminates ==
    lastCmd.cmd = "BackTrace" =>
       /\ dbg # "blocked"
       /\ \A i, j \in DOMAIN BasePtrReads(ops) :
            i # j => BasePtrReads(ops)[i] # BasePtrReads(ops)[j]
       /\ (/\ HasLive
           /\ ~get_line_from_addr(procs[inferior].rip).some
           /\ PeekOk(procs[inferior].rbp + WordSize)
           /\ PeekOk(procs[inferior].rbp)) => Len(BasePtrReads(ops)) >= 1

C22_OriginalByteIsKept ==
    \A a \in TextAddrs :
       (HasLive /\ procs[inferior].mem[a] = TrapOpcode /\ FreshMem[a] # TrapOpcode)
          => original_byte(a) = Some(FreshMem[a])

\* the words from_tokens takes as the first token of a command
CommandWords ==
    {"q", "quit", "r", "run", "c", "cont", "continue", "bt", "backtrace",
     "n", "next", "b", "break"}

\* a line that is no command: its first word is none of the command words,
\* or it is a break without a target
NoCommand(tokens) ==
    \/ tokens[1] \notin CommandWords
    \/ tokens[1] \in {"b", "break"} /\ Len(tokens) < 2

\* C23: every line whose first word is not a command word, and a break or b
\* without a target, is taken for no command; the step that handles such a
\* line prints a diagnostic, leaves the debugger at the prompt and changes
\* neither the slot, the processes nor the table, and issues no kernel call;
\* no other line is handled this way.
C23_UnrecognizedInputChangesNothing ==
    [][/\ \A t \in InputLines : NoCommand(t) <=> ~from_tokens(t).cmd.some
       /\ lastCmd'.cmd = "Unrecognized" =>
            /\ NoCommand(lastCmd'.arg)
            /\ out' # <<>>
            /\ out'[Len(out')].tag = "UnrecognizedCommand"
            /\ (Len(lastCmd'.arg) < 2 /\ lastCmd'.arg[1] \in {"b", "break"})
                  => out'[1].tag = "NoBreakpointTarget"
            /\ ops' = <<>>
            /\ dbg' = "prompt"
            /\ UNCHANGED <<inferior, breakpoints, procs, created>>]_vars

\* a bare break was typed while a process is live and two breakpoints exist
C23_Witness ==
    /\ lastCmd = Cmd("Unrecognized", <<"break">>)
    /\ Len(out) = 2
    /\ HasLive
    /\ Len(created) = 2

\* the hexadecimal value of a starred target: the stars and a 0x prefix are
\* stripped and the rest is parsed in radix 16
RawAddress(target) ==
    from_str_radix(trim_start_matches(trim_start_matches(target, <<"*">>), <<"0", "x">>), 16)

\* the one strategy the form of a target selects, and its result
Selected(target) ==
    IF target # <<>> /\ target[1] = "*"
    THEN [tag |-> "InvalidRawAddress", addr |-> RawAddress(target)]
    ELSE IF from_str_radix(target, 10).some
    THEN [tag |-> "NoSourceForLine", addr |-> get_addr_for_line(from_str_radix(target, 10).v)]
    ELSE [tag |-> "NoFunctionNamed", addr |-> get_addr_for_function(target)]

\* C26: a Breakpoint command resolves its target by the one strategy the
\* target's form selects (a leading star: hexadecimal parsing; else a decimal
\* integer: line lookup; else: function lookup) and by no other: it creates a
\* breakpoint exactly when that strategy yields an address, at that address,
\* and otherwise prints that strategy's diagnostic and nothing else.
C26_StrategyByFormNoFallThrough ==
    [][lastCmd'.cmd = "BreakPoint" =>
         \E sel \in {Selected(lastCmd'.arg)} :
            IF sel.addr.some
            THEN /\ created' = Append(created, sel.addr.v)
                 /\ out'[1].tag = "SetBreakpoint"
                 /\ out'[1].addr = sel.addr.v
            ELSE /\ created' = created
                 /\ out' # <<>>
                 /\ \A i \in DOMAIN out' : out'[i].tag = sel.tag]_vars

\* the starred target *24, whose rest is also a decimal number, made a
\* breakpoint at 0x24 after a breakpoint on main, with a live process
C26_Witness ==
    /\ lastCmd = Cmd("BreakPoint", <<"*", "2", "4">>)
    /\ created = <<Sym.main, 36>>
    /\ HasLive

\* C27: once a byte at address a has been patched, exactly one word was read
\* and one written, both at a rounded down to a multiple of 8; the byte at a
\* is the trap opcode 0xCC, every other byte of the memory (the other seven
\* of that word included) is as before, and the byte returned is the byte
\* that was at a before.
C27_PatchTouchesOneByteOfAlignedWord ==
    patch.phase = "patched" =>
       /\ ops = <<K("peek", inferior, (patch.addr \div 8) * 8),
                  K("poke", inferior, (patch.addr \div 8) * 8)>>
       /\ \A b \in DOMAIN patch.before :
             procs[inferior].mem[b] = IF b = patch.addr THEN 204 ELSE patch.before[b]
       /\ DOMAIN procs[inferior].mem = DOMAIN patch.before
       /\ patch.orig = patch.before[patch.addr]

\* the byte at offset 5 of a text word was patched: it held 255, its
\* neighbours hold 85 and the trap opcode and still do
C27_Witness ==
    /\ patch.phase = "patched"
    /\ patch.addr = TextBase + WordSize + 5
    /\ patch.orig = 255
    /\ procs[inferior].mem[patch.addr - 1] = 85
    /\ procs[inferior].mem[patch.addr + 1] = TrapOpcode
    /\ procs[inferior].mem[patch.addr] = TrapOpcode

\* C28: after a Run whose spawn failed once the child had been launched (the
\* first wait gave something other than a stop by SIGTRAP, or failed), the
\* child that Run launched is not alive: no traced child is left behind
\* without a handle.
C28_FailedSpawnLeavesNoOrphan ==
    (/\ lastCmd.cmd = "Run"
     /\ SpawnAt(ops) # 0
     /\ \E i \in DOMAIN out : out[i].tag \in {"UnexpectedWaitStatus", "WaitpidFailed"})
    => ~Alive(procs[ops[SpawnAt(ops)].pid])

\* the position of the first occurrence of x in s
FirstOccurrence(s, x) == CHOOSE k \in DOMAIN s : s[k] = x /\ \A m \in 1..(k - 1) : s[m] # x

\* C24: after dedup the vector holds each distinct value of the input
\* exactly once, in the order in which the values first occur in the input.
C24_DedupKeepsFirstOccurrences ==
    warmup.phase = "done" =>
       /\ {warmup.v[k] : k \in DOMAIN warmup.v} = {warmup.input[k] : k \in DOMAIN warmup.input}
       /\ \A j, k \in DOMAIN warmup.v : j < k =>
             /\ warmup.v[j] # warmup.v[k]
             /\ FirstOccurrence(warmup.input, warmup.v[j])
                   < FirstOccurrence(warmup.input, warmup.v[k])

\* the vector of test_dedup has been deduplicated
C24_Witness ==
    /\ warmup.phase = "done"
    /\ warmup.input = <<3, 1, 0, 1, 4, 4>>
    /\ warmup.v = <<3, 1, 0, 4>>

\* s read at the positions of I, in order
RECURSIVE Picked(_, _, _)
Picked(s, I, k) ==
    IF k > Len(s) THEN <<>>
    ELSE IF k \in I THEN <<s[k]>> \o Picked(s, I, k + 1)
    ELSE Picked(s, I, k + 1)

\* the subsequences of s
Subsequences(s) == {Picked(s, I, 1) : I \in SUBSET DOMAIN s}

\* the length of a longest common subsequence of s and t
LongestCommon(s, t) ==
    LET common == Subsequences(s) \cap Subsequences(t)
    IN  CHOOSE n \in 0..Len(s) : (\E x \in common : Len(x) = n) /\ \A x \in common : Len(x) <= n

\* C25: lcs returns, without panicking, a grid of len(seq1) + 1 rows and
\* len(seq2) + 1 columns whose cell (i, j) is the length of a longest common
\* subsequence of the first i elements of seq1 and the first j of seq2; row 0
\* and column 0 are all 0.
C25_LcsGridHoldsPrefixLengths ==
    rdiff.phase = "done" =>
       /\ ~rdiff.panicked
       /\ Grid_size(rdiff.c) = <<Len(rdiff.seq1) + 1, Len(rdiff.seq2) + 1>>
       /\ \A i \in 0..Len(rdiff.seq1), j \in 0..Len(rdiff.seq2) :
             /\ Grid_get(rdiff.c, i, j)
                   = Some(LongestCommon(SubSeq(rdiff.seq1, 1, i), SubSeq(rdiff.seq2, 1, j)))
             /\ (i = 0 \/ j = 0) => Grid_get(rdiff.c, i, j) = Some(0)

\* lcs of "abd" and "adb" has been computed: the last cell holds 2
C25_Witness ==
    /\ rdiff.phase = "done"
    /\ rdiff.seq1 = <<"a", "b", "d">>
    /\ rdiff.seq2 = <<"a", "d", "b">>
    /\ Grid_get(rdiff.c, 3, 3) = Some(2)
    /\ Grid_get(rdiff.c, 2, 2) = Some(1)

\* how often x occurs in s
Occurrences(s, x) == Cardinality({k \in DOMAIN s : s[k] = x})

\* the numbers of a log of pops or of factorings
RECURSIVE NumsOf(_)
NumsOf(log) == IF log = <<>> THEN <<>> ELSE <<Head(log).num>> \o NumsOf(Tail(log))

\* C29: under every interleaving, every number of the input is either still
\* in the queue or was popped once, by one worker; every popped number is
\* factored once, by the worker that popped it, or is the one that worker is
\* about to factor; a worker that is over has seen the queue empty; and once
\* main has returned, every worker was joined and every number of the input
\* has been factored exactly once.
C29_EveryNumberFactoredOnce ==
    farm.main # "none" =>
       /\ \A x \in FarmNumbers :
             Occurrences(farm.numbers, x)
                = Occurrences(NumsOf(farm.popped), x) + Occurrences(farm.vec_deq, x)
       /\ Len(farm.factored) <= Len(farm.popped)
       /\ \A k \in DOMAIN farm.factored :
             farm.factored[k].num = farm.popped[k].num /\ farm.factored[k].by = farm.popped[k].by
       /\ \A k \in DOMAIN farm.popped :
             k > Len(farm.factored) =>
                farm.pc[farm.popped[k].by] = "factor" /\ farm.num[farm.popped[k].by] = farm.popped[k].num
       /\ \A t \in DOMAIN farm.pc : farm.pc[t] = "done" => farm.vec_deq = <<>>
       /\ farm.main = "done" =>
             /\ farm.joined = farm.num_threads
             /\ \A t \in DOMAIN farm.pc : farm.pc[t] = "done"
             /\ \A x \in FarmNumbers :
                   Occurrences(NumsOf(farm.factored), x) = Occurrences(farm.numbers, x)

\* main has returned after two workers shared three numbers, one of them twice
\* in the input
C29_Witness ==
    /\ farm.main = "done"
    /\ farm.numbers = <<4, 12, 4>>
    /\ \E j, k \in DOMAIN farm.factored : farm.factored[j].by = 1 /\ farm.factored[k].by = 2

\* C30: whatever the interleaving of the workers and the order in which the
\* results arrive, the vector parallel_map returns has the length of the
\* input and holds at every index f of the input element at that index; until
\* then every place already collected holds that value.
C30_OutputIsFOfInputAtEveryIndex ==
    pmap.main # "none" =>
       /\ Len(pmap.output_vec) = Len(pmap.input)
       /\ \A k \in DOMAIN pmap.arrived :
             pmap.output_vec[pmap.arrived[k] + 1]
                = pmap.input[pmap.arrived[k] + 1] * pmap.input[pmap.arrived[k] + 1]
       /\ pmap.main = "done" =>
             \A i \in DOMAIN pmap.input : pmap.output_vec[i] = pmap.input[i] * pmap.input[i]

\* parallel_map has returned the squares of 2, 3, 3 though two workers sent
\* the result of index 1 before that of index 0
C30_Witness ==
    /\ pmap.main = "done"
    /\ pmap.num_threads = 2
    /\ pmap.input = <<2, 3, 3>>
    /\ pmap.arrived = <<1, 0, 2>>
    /\ pmap.output_vec = <<4, 9, 9>>

\* how many entries of a sequence of pairs carry the index i
WithIndex(pairs, i) == Cardinality({k \in DOMAIN pairs : pairs[k][1] = i})

\* the tasks the workers hold between receiving them and sending the result
Held(i) == Cardinality({t \in DOMAIN pmap.pc : pmap.task[t] # <<>> /\ pmap.task[t][1] = i})

\* how often index i was received, and how often its result was collected
Received(i) == Cardinality({k \in DOMAIN pmap.received : pmap.received[k].index = i})
Collected(i) == Cardinality({k \in DOMAIN pmap.arrived : pmap.arrived[k] = i})

\* every task sent is in the channel or was received once; every task received
\* is held by its worker, in the result channel or collected, once in all
MapAccounts ==
    /\ \A i \in 0..(pmap.len - 1) :
          /\ WithIndex(pmap.tasks, i) + Received(i) = (IF i < pmap.sent THEN 1 ELSE 0)
          /\ Held(i) + WithIndex(pmap.results, i) + Collected(i) = Received(i)
    /\ pmap.collected = Len(pmap.arrived)
    /\ pmap.main = "done" =>
          /\ pmap.collected = pmap.len
          /\ pmap.tasks = <<>> /\ pmap.results = <<>>
          /\ \A i \in 0..(pmap.len - 1) : Received(i) = 1 /\ Collected(i) = 1

\* parallel_map has returned and every worker thread is over
MapOver == pmap.main = "done" /\ \A t \in DOMAIN pmap.pc : pmap.pc[t] = "done"

\* C31: with at least one worker parallel_map returns and every worker thread
\* ends, whatever the input; each task is received by exactly one worker and
\* exactly len results are produced and collected; with no worker and a
\* non-empty input nothing is ever collected and parallel_map never returns.
C31_MapTerminatesUnlessNoWorker ==
    /\ (pmap.main = "spawn" /\ pmap.num_threads >= 1) ~> MapOver
    /\ [](pmap.main # "none" => MapAccounts)
    /\ []((pmap.main # "none" /\ pmap.num_threads = 0 /\ pmap.len > 0)
             => (pmap.main # "done" /\ pmap.collected = 0))

\* parallel_map has returned three results that two workers shared, and both
\* workers are over
C31_Witness ==
    /\ pmap.main # "none"
    /\ MapOver
    /\ pmap.num_threads = 2
    /\ pmap.len = 3
    /\ \E j, k \in DOMAIN pmap.received : pmap.received[j].by = 1 /\ pmap.received[k].by = 2

\* the workers that are executing factor_number
Factoring == {t \in DOMAIN farm.pc : farm.pc[t] = "factor"}

\* C32: a worker holds the mutex of the queue from the pop of a number
\* through the factoring of it to the end of the loop body, so at most one
\* worker is executing factor_number in any reachable state.
C32_GuardHeldWhileFactoring ==
    farm.main # "none" =>
       /\ \A t \in DOMAIN farm.pc :
             farm.pc[t] \in {"pop", "factor", "drop"} => farm.guard = t
       /\ Cardinality(Factoring) <= 1

\* worker 1 is factoring with the mutex held while worker 2 waits for the
\* mutex though a number is left in the queue
C32_Witness ==
    /\ farm.main # "none"
    /\ farm.num_threads = 2
    /\ farm.pc[1] = "factor"
    /\ farm.pc[2] = "lock"
    /\ farm.guard = 1
    /\ farm.vec_deq # <<>>

\* the cells of the nodes reachable from cell c by next
RECURSIVE ReachableFrom(_, _)
ReachableFrom(heap, c) ==
    IF c = 0 \/ c \notin DOMAIN heap THEN {} ELSE {c} \cup ReachableFrom(heap, heap[c].next)

\* get_size is the number of nodes reachable from head, and is_empty says
\* whether that number is 0
SizeCountsNodes(ll) ==
    /\ ~ll.list.panicked
    /\ get_size(ll.list) = Cardinality(ReachableFrom(ll.list.heap, ll.list.head))
    /\ is_empty(ll.list) <=> ReachableFrom(ll.list.heap, ll.list.head) = {}

\* C33: after any sequence of push_front and pop_front calls from new(),
\* get_size() is the number of nodes reachable from head and is_empty() holds
\* exactly when there is none; pop_front on an empty list returns None and
\* leaves the list and its size as they were.
C33_SizeIsNodeCount ==
    [][/\ SizeCountsNodes(linked_list)
       /\ SizeCountsNodes(linked_list')
       /\ (linked_list'.op = "pop_front" /\ linked_list.list.head = 0) =>
             /\ linked_list'.ret = None
             /\ linked_list'.list = linked_list.list
             /\ get_size(linked_list'.list) = 0]_vars

\* pop_front was called on a list without nodes: it returned None and the
\* size is still 0
C33_Witness ==
    /\ linked_list.op = "pop_front"
    /\ linked_list.ret = None
    /\ linked_list.list.head = 0
    /\ get_size(linked_list.list) = 0
    /\ linked_list.pending = <<>>

\* C34: pop_front returns the value pushed last among those not yet popped
\* (None when there is none), and iterating the list yields the values not
\* yet popped from the one pushed last to the one pushed first.
C34_LastInFirstOut ==
    [][/\ linked_list'.op = "pop_front" =>
             linked_list'.ret = (IF linked_list.pending = <<>> THEN None
                                 ELSE Some(Head(linked_list.pending)))
       /\ linked_list'.op = "iter" => linked_list'.ret = linked_list.pending]_vars

\* 1, 2, 1 were pushed and the last 1 popped: iterating yields 2, 1
C34_Witness ==
    /\ linked_list.op = "iter"
    /\ linked_list.ret = <<2, 1>>
    /\ get_size(linked_list.list) = 2
    /\ linked_list.list.head # 1

====
